---- MODULE Spec2Model ----
(***************************************************************************)
(* Scene graph and pointer-event routing of gillcup_graphics               *)
(* (gillcup_graphics/objects.py, transformation.py, mainwindow.py).        *)
(*                                                                         *)
(* The scene is a tree of nodes: Layers own an ordered child list, a hover *)
(* table and a drag-capture table; leaves are Rectangles.  A pointer event *)
(* enters at the root layer with a fresh PointTransformation and is routed *)
(* recursively.  One action models one whole event (the complete handler   *)
(* call tree), recording the handler invocations of the pass in `log`.     *)
(* Between events the application may change the scene.                    *)
(***************************************************************************)
EXTENDS Integers, Sequences, FiniteSets, TLC

VARIABLES
    children,           \* Layer.children: layer -> sequence of nodes
    parent,             \* GraphicsObject.parent: node -> node or None
    hidden,             \* GraphicsObject.hidden
    dead,               \* GraphicsObject.dead
    scale,              \* GraphicsObject.scale: node -> <<sx, sy, sz>>
    hovered_children,   \* Layer.hovered_children: layer -> dict pointer -> set
    dragging_children,  \* Layer.dragging_children: layer -> dict pointer -> dict button -> node
    event,              \* the last step's event: kind, pointer, button, and the
                        \*   point of a motion or press
    log,                \* handler invocations made while handling it, in order
    raised,             \* the exception that escaped the last step, or None
    claimed,            \* history: <<layer, p, b, child>> such that the child's press
                        \*   handler was the last to claim (p, b) at the layer, and the
                        \*   layer completed no release for (p, b) since
    motioned,           \* history: <<layer, p, node>> such that the layer delivered
                        \*   motion for p to the node and no leave for p since
    changes,            \* number of scene changes made so far (bounded)
    tf,                 \* a transformation object used on its own: class, value
                        \*   (point or matrix), original point, stack; and, as
                        \*   history, the open push/state contexts with the state
                        \*   each was entered in, the exception in flight, the
                        \*   number of operations applied so far (bounded) and
                        \*   the kind of the last step
    pair,               \* a PointTransformation built from p and a
                        \*   MatrixTransformation given the same operations: p,
                        \*   the point, the matrix, the exception each raised in
                        \*   the last operation, whether every operation since
                        \*   construction or reset was invertible, and the last
                        \*   operation with its argument
    decorations,        \* the layers that are DecorationLayers
    anchors,            \* GraphicsObject.anchor of every node
    walker,             \* a TreeWalker of the debugger: the lists of children of
                        \*   the tree, the position of the focus, and, as
                        \*   history, the number of steps made forward less
                        \*   those made back
    made                \* the last constructor call: the node, the names of its
                        \*   keyword arguments in the order the dictionary yields
                        \*   them, the properties assigned, the exception raised
                        \*   and the names it lists, the nodes the constructor was
                        \*   called for and those it returned

vars == <<children, parent, hidden, dead, scale, hovered_children,
          dragging_children, event, log, raised, claimed, motioned, changes,
          tf, pair, made, decorations,
                   walker, anchors>>

None == "None"

\* No pair of transformations is under comparison.
NoPair ==
    [p |-> <<>>, point |-> <<>>, matrix |-> <<>>, perr |-> None, merr |-> None,
     regular |-> TRUE, last |-> <<"init">>]

\* No tree is shown in the debugger.
NoWalker == [list |-> <<>>, position |-> <<>>, steps |-> -1]

\* No constructor has been called.
NoObject ==
    [node |-> None, kwargs |-> <<>>, assigned |-> <<>>, err |-> None,
     unknown |-> <<>>, called |-> {}, built |-> {}]

\* No transformation object exists outside a pass of the scene.
NoTransformation ==
    [cls |-> None, value |-> <<>>, original |-> <<>>, stack |-> <<>>,
     ctx |-> <<>>, raising |-> None, ops |-> 0, last |-> "init"]

(***************************************************************************)
(* Bounds of the model.                                                    *)
(***************************************************************************)
MaxCoord == 3       \* pointer x coordinates are 0..MaxCoord
NumButtons == 2     \* buttons are 1..NumButtons
MaxChanges == 1     \* scene changes (hide, show, scale, die, reparent) per behaviour

(***************************************************************************)
(* The nodes: the root layer R, shown in the window, a second layer S that *)
(* is not shown, and rectangles A and B.  On the x axis of their parent A  *)
(* covers [0, 2) and B covers [1, 3): they overlap in [1, 2), and x = 3 is *)
(* outside both.                                                           *)
(***************************************************************************)
Layers == {"R", "S"}
Leaves == {"A", "B"}
Nodes == Layers \cup Leaves
Root == "R"
NodeOrder == <<"R", "S", "A", "B">>
Pointers == {"main"}
Buttons == 1..NumButtons
ScaleValues == {<<1, 1, 1>>, <<0, 1, 1>>, <<0, 0, 0>>}

position(n) == IF n = "B" THEN <<1, 0, 0>> ELSE <<0, 0, 0>>

size(n) == IF n \in Leaves THEN <<2, 1>> ELSE <<1, 1>>

anchor(n) == anchors[n]

\* The anchor of a node constructed with the default relative_anchor.
NoAnchors == [n \in Nodes |-> <<0, 0, 0>>]

EmptyDict == [x \in {} |-> None]

Put(f, k, v) == [x \in (DOMAIN f) \cup {k} |-> IF x = k THEN v ELSE f[x]]

Del(f, k) == [x \in (DOMAIN f) \ {k} |-> f[x]]

Get(f, k, default) == IF k \in DOMAIN f THEN f[k] ELSE default

Contains(seq, x) == \E i \in 1..Len(seq) : seq[i] = x

Without(seq, x) == SelectSeq(seq, LAMBDA c : c # x)

IndexOf(seq, x) == CHOOSE i \in 1..Len(seq) : seq[i] = x

(***************************************************************************)
(* GraphicsObject.is_hidden: hidden, dead, or every scale factor zero.     *)
\* Variant of is_hidden: a zero scale factor on any axis hides the node.
is_hidden_any_zero(n) ==
    hidden[n] \/ dead[n] \/ (\E i \in 1..3 : scale[n][i] = 0)

(***************************************************************************)
is_hidden(n) ==
    hidden[n] \/ dead[n] \/ (\A i \in 1..3 : scale[n][i] = 0)

(***************************************************************************)
(* PointTransformation: the tracked point and the stack of saved points.   *)
(***************************************************************************)
translate(pt, v) == <<pt[1] - v[1], pt[2] - v[2], pt[3] - v[3]>>

scale_raises(s) == \E i \in 1..3 : s[i] = 0

scale_point(pt, s) == <<pt[1] \div s[1], pt[2] \div s[2], pt[3] \div s[3]>>

push(m) == [m EXCEPT !.stack = Append(m.stack, m.point)]

pop(m) == [m EXCEPT !.point = m.stack[Len(m.stack)],
                    !.stack = SubSeq(m.stack, 1, Len(m.stack) - 1)]

(***************************************************************************)
(* GraphicsObject.transform on a PointTransformation: translate by the     *)
(* position, rotate (rotation is 0: no operation), scale, translate by the *)
(* negated anchor.  scale divides, so a zero factor raises                 *)
(* ZeroDivisionError and leaves the point as translated so far.            *)
(***************************************************************************)
transform(m, n) ==
    LET t1 == translate(m.point, position(n))
    IN  IF scale_raises(scale[n])
        THEN [m EXCEPT !.point = t1, !.zde = TRUE]
        ELSE [m EXCEPT !.point = translate(scale_point(t1, scale[n]),
                                           <<0 - anchor(n)[1], 0 - anchor(n)[2], 0 - anchor(n)[3]>>),
                       !.zde = FALSE]

\* Variant of hit_test: every node reports a hit at every point.
hit_test_everywhere(n, pt) == TRUE

(***************************************************************************)
(* DecorationLayer.hit_test is declared with one positional parameter,     *)
(* transformation, and keyword arguments; the hit-test generator calls     *)
(* hit_test of the child with the three coordinates of the point as        *)
(* positional arguments, which such a function does not accept: the call   *)
(* raises TypeError before the body runs.                                  *)
(***************************************************************************)
hit_test_raises(n) == n \in decorations

\* Variant of hit_test: the right and top edges of a rectangle are inside.
hit_test_closed(n, pt) ==
    IF n \in Leaves
    THEN 0 <= pt[1] /\ pt[1] <= size(n)[1] /\ 0 <= pt[2] /\ pt[2] <= size(n)[2]
    ELSE TRUE

(***************************************************************************)
(* hit_test: Rectangle tests its bounds, every other node is hit anywhere. *)
(***************************************************************************)
hit_test(n, pt) ==
    IF n \in Leaves
    THEN 0 <= pt[1] /\ pt[1] < size(n)[1] /\ 0 <= pt[2] /\ pt[2] < size(n)[2]
    ELSE TRUE

(***************************************************************************)
(* One handler invocation, as recorded in the log of the pass.  `by` is    *)
(* the layer whose handler made the call ("Window" for the root),          *)
(* `sentinel` tells that the point passed is (False, False, False), and    *)
(* `ret` is what the handler returned (filled in when it returns).         *)
(***************************************************************************)
Delivery(n, kind, button, sentinel, by, e) ==
    [kind |-> kind, node |-> n, by |-> by, pointer |-> e.pointer,
     button |-> button, sentinel |-> sentinel, ret |-> None]

(***************************************************************************)
(* The handlers of a leaf: the user's on_pointer_<kind> methods.  The      *)
(* event names the nodes whose motion/press handler returns a true value   *)
(* (as DemoRect and DraggableRect do); the base class handlers return      *)
(* None.  A true value is modelled as the name of the node returning it.   *)
(***************************************************************************)
\* The invocation d with the x, y, z it was called with (kept for the passes
\* of motion and press events; False counts as 0).
At(d, pt) ==
    [x \in DOMAIN d \cup {"point"} |-> IF x = "point" THEN pt ELSE d[x]]

leaf_handler(n, kind, e) ==
    IF kind \in {"motion", "press"} /\ n \in e.claimers THEN n ELSE None

\* Variant of in_children: the captured child is not looked up in the list.
in_children_unchecked(L, c) == TRUE

(***************************************************************************)
(* `child in self.children`, the test guarding drag and release delivery.  *)
(***************************************************************************)
in_children(L, c) == Contains(children[L], c)

\* Variants of motion_stops: the loop never stops early; it stops at a
\* false result.
motion_never_stops(ret) == FALSE

motion_stops_on_false(ret) == ret = None

(***************************************************************************)
(* `if retval: break` of the motion loop and `if ret:` of the press loop.  *)
(***************************************************************************)
motion_stops(ret) == ret # None

\* Variant of press_claims: no result of a press handler counts as a claim.
press_claims_never(ret) == FALSE

press_claims(ret) == ret # None

RECURSIVE pointer_event(_, _, _, _, _, _, _)
RECURSIVE drag_loop(_, _, _, _, _)
RECURSIVE motion_loop(_, _, _, _, _)
RECURSIVE leave_loop(_, _, _, _, _)
RECURSIVE press_loop(_, _, _, _)
RECURSIVE Layer_on_pointer_motion(_, _, _)
RECURSIVE Layer_on_pointer_leave(_, _, _)
RECURSIVE Layer_on_pointer_press(_, _, _)
RECURSIVE Layer_on_pointer_release(_, _, _)

(***************************************************************************)
(* Layer.on_pointer_motion, first loop: a drag event for every captured    *)
(* (button, child) of the pointer whose child is in the child list.        *)
(* Buttons are visited in ascending order (CPython's order for a dict of   *)
(* small integers).                                                        *)
(***************************************************************************)
drag_loop(m, L, e, reg, b) ==
    IF b > NumButtons THEN m
    ELSE IF b \in DOMAIN reg /\ in_children(L, reg[b])
    THEN LET c == reg[b]
             m1 == transform(push(m), c)
             m2 == pointer_event(m1, c, "drag", b, m1.zde, L, e)
         IN  drag_loop(pop(m2), L, e, reg, b + 1)
    ELSE drag_loop(m, L, e, reg, b + 1)

(***************************************************************************)
(* Layer.on_pointer_motion, second loop over Layer._hit_test_generator:    *)
(* children front to back, each inside its own transformation state; a    *)
(* hit child is sent motion and joins the new hover set; a true result     *)
(* breaks the loop, leaving the generator suspended inside the state       *)
(* context (broke: the push is not yet popped).                            *)
(***************************************************************************)
motion_loop(m, L, e, i, new) ==
    IF i = 0 THEN [m |-> m, new |-> new, broke |-> FALSE]
    ELSE LET c == children[L][i]
             m1 == transform(push(m), c)
         IN  IF (~m1.zde) /\ hit_test_raises(c)
             THEN [m |-> [pop(m1) EXCEPT !.err = "TypeError"], new |-> new,
                   broke |-> FALSE]
             ELSE IF (~m1.zde) /\ hit_test(c, m1.point)
             THEN LET m2 == pointer_event(m1, c, "motion", 0, FALSE, L, e)
                  IN  IF m2.err # None
                      THEN [m |-> pop(m2), new |-> new, broke |-> FALSE]
                      ELSE IF motion_stops(m2.ret)
                      THEN [m |-> m2, new |-> new \cup {c}, broke |-> TRUE]
                      ELSE motion_loop(pop(m2), L, e, i - 1, new \cup {c})
             ELSE motion_loop(pop(m1), L, e, i - 1, new)

(***************************************************************************)
(* A leave event to each node of a set, each inside its own transformation *)
(* state, with the sentinel point when its transform raises.               *)
(***************************************************************************)
leave_loop(m, L, e, leaving, k) ==
    IF k > Len(NodeOrder) THEN m
    ELSE IF NodeOrder[k] \in leaving
    THEN LET c == NodeOrder[k]
             m1 == transform(push(m), c)
             m2 == pointer_event(m1, c, "leave", 0, m1.zde, L, e)
         IN  leave_loop(pop(m2), L, e, leaving, k + 1)
    ELSE leave_loop(m, L, e, leaving, k + 1)

Layer_on_pointer_motion(m, L, e) ==
    LET reg == Get(m.drag[L], e.pointer, EmptyDict)
        m1 == drag_loop(m, L, e, reg, 1)
        g == motion_loop([m1 EXCEPT !.ret = None], L, e, Len(children[L]), {})
        hovered == Get(g.m.hover[L], e.pointer, {})
        m3 == leave_loop(g.m, L, e, hovered \ g.new, 1)
        m4 == [m3 EXCEPT !.hover[L] = Put(@, e.pointer, g.new),
                         !.ret = g.m.ret]
    IN  IF g.m.err # None THEN [g.m EXCEPT !.ret = None]
        ELSE IF g.broke THEN pop(m4) ELSE m4

(***************************************************************************)
(* Layer.on_pointer_leave: leave to every node of the pointer's hover set, *)
(* then the hover entry is removed.                                        *)
(***************************************************************************)
Layer_on_pointer_leave(m, L, e) ==
    LET hovered == Get(m.hover[L], e.pointer, {})
        m1 == leave_loop(m, L, e, hovered, 1)
    IN  [m1 EXCEPT !.hover[L] = Del(@, e.pointer), !.ret = None]

(***************************************************************************)
(* Layer.on_pointer_press: hit children front to back; the first whose     *)
(* handler returns a true value is recorded as the capture and the value   *)
(* is returned (the generator is closed on return: its push is popped).    *)
(***************************************************************************)
press_loop(m, L, e, i) ==
    IF i = 0 THEN [m EXCEPT !.ret = None]
    ELSE LET c == children[L][i]
             m1 == transform(push(m), c)
         IN  IF (~m1.zde) /\ hit_test_raises(c)
             THEN [pop(m1) EXCEPT !.err = "TypeError", !.ret = None]
             ELSE IF (~m1.zde) /\ hit_test(c, m1.point)
             THEN LET m2 == pointer_event(m1, c, "press", e.button, FALSE, L, e)
                  IN  IF m2.err # None THEN [pop(m2) EXCEPT !.ret = None]
                      ELSE IF press_claims(m2.ret)
                      THEN pop([m2 EXCEPT
                              !.drag[L] = Put(@, e.pointer,
                                  Put(Get(@, e.pointer, EmptyDict), e.button, c)),
                              !.claims = @ \cup {<<L, e.pointer, e.button, c>>}])
                      ELSE press_loop(pop(m2), L, e, i - 1)
             ELSE press_loop(pop(m1), L, e, i - 1)

Layer_on_pointer_press(m, L, e) == press_loop(m, L, e, Len(children[L]))

(***************************************************************************)
(* Layer.on_pointer_release.  dragging_children is a defaultdict: looking  *)
(* up a missing pointer creates its (empty) button map.  The child's       *)
(* transform is not guarded here: ZeroDivisionError escapes before the     *)
(* capture entry is deleted.                                               *)
(***************************************************************************)
\* Variant of release_delete: the last release empties the whole capture
\* table instead of removing the released pointer's entry.
release_delete_all(m, L, e) ==
    LET reg == Del(m.drag[L][e.pointer], e.button)
    IN  [m EXCEPT !.drag[L] = IF DOMAIN reg = {} THEN EmptyDict
                              ELSE Put(@, e.pointer, reg),
                  !.ret = None]

release_delete(m, L, e) ==
    LET reg == Del(m.drag[L][e.pointer], e.button)
    IN  [m EXCEPT !.drag[L] = IF DOMAIN reg = {} THEN Del(@, e.pointer)
                              ELSE Put(@, e.pointer, reg),
                  !.ret = None]

Layer_on_pointer_release(m, L, e) ==
    LET d == IF e.pointer \in DOMAIN m.drag[L] THEN m.drag[L]
             ELSE Put(m.drag[L], e.pointer, EmptyDict)
        mA == [m EXCEPT !.drag[L] = d, !.ret = None]
    IN  IF e.button \notin DOMAIN d[e.pointer] THEN mA
        ELSE LET c == d[e.pointer][e.button]
             IN  IF in_children(L, c)
                 THEN LET m1 == transform(push(mA), c)
                      IN  IF m1.zde
                          THEN [pop(m1) EXCEPT !.err = "ZeroDivisionError"]
                          ELSE LET m2 == pointer_event(m1, c, "release",
                                                       e.button, FALSE, L, e)
                               IN  IF m2.err # None THEN pop(m2)
                                   ELSE release_delete(pop(m2), L, e)
                 ELSE release_delete(mA, L, e)

(***************************************************************************)
(* GraphicsObject.pointer_event: nothing for a hidden node; otherwise the  *)
(* on_pointer_<kind> handler.  Layer.on_pointer_drag does nothing.         *)
(* DecorationLayer.pointer_event does nothing at all.                      *)
(***************************************************************************)
pointer_event(m, n, kind, button, sentinel, by, e) ==
    IF n \in decorations \/ is_hidden(n) THEN [m EXCEPT !.ret = None]
    ELSE LET k == Len(m.log) + 1
             m1 == [m EXCEPT !.log = Append(@,
                        At(Delivery(n, kind, button, sentinel, by, e),
                           IF sentinel \/ e.kind \notin {"motion", "press"}
                           THEN <<0, 0, 0>> ELSE m.point))]
             m2 == IF n \in Layers
                   THEN CASE kind = "motion" -> Layer_on_pointer_motion(m1, n, e)
                          [] kind = "leave" -> Layer_on_pointer_leave(m1, n, e)
                          [] kind = "press" -> Layer_on_pointer_press(m1, n, e)
                          [] kind = "release" -> Layer_on_pointer_release(m1, n, e)
                          [] OTHER -> [m1 EXCEPT !.ret = None]
                   ELSE [m1 EXCEPT !.ret = leaf_handler(n, kind, e)]
         IN  [m2 EXCEPT !.log[k].ret = m2.ret]

(***************************************************************************)
(* An event entering at the root layer, set up as Window.pointer_event     *)
(* does: a fresh PointTransformation for the event's point, the root       *)
(* layer's transform inside a state context, then the root's               *)
(* pointer_event.  (The window's own call passes the root no coordinates;  *)
(* the root's handlers read the point from the transformation only.)       *)
(***************************************************************************)
Window_pointer_event(e) ==
    LET m0 == [hover |-> hovered_children, drag |-> dragging_children,
               point |-> e.point, stack |-> <<>>, zde |-> FALSE,
               log |-> <<>>, ret |-> None, err |-> None, claims |-> {}]
        m1 == transform(push(m0), Root)
    IN  IF m1.zde THEN [pop(m1) EXCEPT !.err = "ZeroDivisionError"]
        ELSE pop(pointer_event(m1, Root, e.kind, e.button, FALSE, "Window", e))

(***************************************************************************)
(* GraphicsObject.reparent on the tree st = [children, parent, dead]:      *)
(* removal from the current parent's list, then insertion at the front     *)
(* (to_back) or the end of the new parent's list.                          *)
(***************************************************************************)
\* Variant of reparent: the node stays in the list of its former parent.
reparent_no_detach(st, n, new_parent, to_back) ==
    LET ch2 == IF new_parent # None
               THEN [st.children EXCEPT ![new_parent] =
                        IF to_back THEN <<n>> \o @ ELSE Append(@, n)]
               ELSE st.children
    IN  [st EXCEPT !.children = ch2, !.parent[n] = new_parent]

\* Variant of reparent: to_back is ignored, the node always goes last.
reparent_always_last(st, n, new_parent, to_back) ==
    LET old == st.parent[n]
        ch1 == IF old # None
               THEN [st.children EXCEPT ![old] = Without(@, n)]
               ELSE st.children
        ch2 == IF new_parent # None
               THEN [ch1 EXCEPT ![new_parent] = Append(@, n)]
               ELSE ch1
    IN  [st EXCEPT !.children = ch2, !.parent[n] = new_parent]

reparent(st, n, new_parent, to_back) ==
    LET old == st.parent[n]
        ch1 == IF old # None
               THEN [st.children EXCEPT ![old] = Without(@, n)]
               ELSE st.children
        ch2 == IF new_parent # None
               THEN [ch1 EXCEPT ![new_parent] =
                        IF to_back THEN <<n>> \o @ ELSE Append(@, n)]
               ELSE ch1
    IN  [st EXCEPT !.children = ch2, !.parent[n] = new_parent]

(***************************************************************************)
(* GraphicsObject.die and Layer.die: the node is marked dead and detached; *)
(* a layer then kills every node of its child list (as it was when the     *)
(* loop started) that still has the layer as its parent.                   *)
(***************************************************************************)
\* Variant of die: the children of a dying layer are left alone.
die_self_only(st, n) ==
    reparent([st EXCEPT !.dead[n] = TRUE], n, None, FALSE)

RECURSIVE die(_, _)
RECURSIVE die_children(_, _, _, _)

die_children(st, L, kids, i) ==
    IF i > Len(kids) THEN st
    ELSE IF st.parent[kids[i]] = L
    THEN die_children(die(st, kids[i]), L, kids, i + 1)
    ELSE die_children(st, L, kids, i + 1)

die(st, n) ==
    LET st1 == reparent([st EXCEPT !.dead[n] = TRUE], n, None, FALSE)
    IN  IF n \in Layers
        THEN die_children(st1, n, st1.children[n], 1)
        ELSE st1

Tree == [children |-> children, parent |-> parent, dead |-> dead]

(***************************************************************************)
(* History of the pass: which children claimed a press and which nodes     *)
(* are owed a leave event.                                                 *)
(***************************************************************************)
Handled(lg, kind) ==
    {lg[i].node : i \in {j \in 1..Len(lg) : lg[j].kind = kind}}

Delivered(lg, kind) ==
    {<<lg[i].by, lg[i].pointer, lg[i].node>> :
        i \in {j \in 1..Len(lg) : lg[j].kind = kind}}

NextClaimed(e, m) ==
    IF e.kind = "press"
    THEN {t \in claimed : \A u \in m.claims :
                ~(u[1] = t[1] /\ u[2] = t[2] /\ u[3] = t[3])} \cup m.claims
    ELSE IF e.kind = "release"
    THEN {t \in claimed : ~(t[1] \in Handled(m.log, "release") /\ m.err = None
                            /\ t[2] = e.pointer /\ t[3] = e.button)}
    ELSE claimed

NextMotioned(m) ==
    (motioned \cup Delivered(m.log, "motion")) \ Delivered(m.log, "leave")

(***************************************************************************)
(* A pointer event arriving from the window.                               *)
(***************************************************************************)
PointerStep(e) ==
    \E m \in {Window_pointer_event(e)} :
        /\ hovered_children' = m.hover
        /\ dragging_children' = m.drag
        /\ event' = [kind |-> e.kind, pointer |-> e.pointer,
                      button |-> e.button,
                      point |-> IF e.kind \in {"motion", "press"}
                                THEN e.point ELSE <<0, 0, 0>>]
        /\ log' = m.log
        /\ raised' = m.err
        /\ claimed' = NextClaimed(e, m)
        /\ motioned' = NextMotioned(m)
        /\ UNCHANGED <<children, parent, hidden, dead, scale, changes, tf, pair, made, decorations,
                   walker, anchors>>

EventPoints == {<<x, 0, 0>> : x \in 0..MaxCoord}

Motion(p, pt, cl) ==
    PointerStep([kind |-> "motion", pointer |-> p, button |-> 0,
                 point |-> pt, claimers |-> cl])

Press(p, b, pt, cl) ==
    PointerStep([kind |-> "press", pointer |-> p, button |-> b,
                 point |-> pt, claimers |-> cl])

Release(p, b, pt) ==
    PointerStep([kind |-> "release", pointer |-> p, button |-> b,
                 point |-> pt, claimers |-> {}])

Leave(p, pt) ==
    PointerStep([kind |-> "leave", pointer |-> p, button |-> 0,
                 point |-> pt, claimers |-> {}])

(***************************************************************************)
(* Changes of the scene made by the application between events.            *)
(***************************************************************************)
NoEvent == [kind |-> "change", pointer |-> None, button |-> 0,
            point |-> <<0, 0, 0>>]

SceneChange ==
    /\ changes < MaxChanges
    /\ changes' = changes + 1
    /\ event' = NoEvent
    /\ log' = <<>>
    /\ raised' = None
    /\ UNCHANGED <<hovered_children, dragging_children, claimed, motioned, tf, pair, made, decorations,
                   walker, anchors>>

Hide(n) ==
    /\ hidden' = [hidden EXCEPT ![n] = TRUE]
    /\ SceneChange
    /\ UNCHANGED <<children, parent, dead, scale>>

SetScale(n, s) ==
    /\ scale' = [scale EXCEPT ![n] = s]
    /\ SceneChange
    /\ UNCHANGED <<children, parent, hidden, dead>>

Die(n) ==
    LET st == die(Tree, n)
    IN  /\ children' = st.children
        /\ parent' = st.parent
        /\ dead' = st.dead
        /\ SceneChange
        /\ UNCHANGED <<hidden, scale>>

Reparent(n, new_parent, to_back) ==
    LET st == reparent(Tree, n, new_parent, to_back)
    IN  /\ new_parent # n
        /\ children' = st.children
        /\ parent' = st.parent
        /\ SceneChange
        /\ UNCHANGED <<hidden, dead, scale>>

Init ==
    /\ children = [L \in Layers |-> IF L = Root THEN <<"A", "B">> ELSE <<>>]
    /\ parent = [n \in Nodes |-> IF n \in Layers THEN None ELSE Root]
    /\ hidden = [n \in Nodes |-> FALSE]
    /\ dead = [n \in Nodes |-> FALSE]
    /\ scale = [n \in Nodes |-> <<1, 1, 1>>]
    /\ hovered_children = [L \in Layers |-> EmptyDict]
    /\ dragging_children = [L \in Layers |-> EmptyDict]
    /\ event = NoEvent
    /\ log = <<>>
    /\ raised = None
    /\ claimed = {}
    /\ motioned = {}
    /\ changes = 0
    /\ tf = NoTransformation
    /\ pair = NoPair
    /\ made = NoObject
    /\ decorations = {}
    /\ walker = NoWalker
    /\ anchors = NoAnchors

(***************************************************************************)
(* R holds A (behind) and B (in front).  The handlers that can return a    *)
(* true value for an event are those of the rectangles covering its point. *)
(* The application may hide a node, change a rectangle's scale, destroy it *)
(* or move it: within R, to layer S, or out of the scene.                  *)
(***************************************************************************)
Covers(n, pt) ==
    /\ position(n)[1] <= pt[1] /\ pt[1] < position(n)[1] + size(n)[1]
    /\ position(n)[2] <= pt[2] /\ pt[2] < position(n)[2] + size(n)[2]

LeavesAt(pt) == {n \in Leaves : Covers(n, pt)}

Next ==
    \/ \E p \in Pointers, pt \in EventPoints :
            \E cl \in SUBSET LeavesAt(pt) : Motion(p, pt, cl)
    \/ \E p \in Pointers, b \in Buttons, pt \in EventPoints :
            \E cl \in SUBSET LeavesAt(pt) : Press(p, b, pt, cl)
    \/ \E p \in Pointers, b \in Buttons, pt \in EventPoints : Release(p, b, pt)
    \/ \E p \in Pointers, pt \in EventPoints : Leave(p, pt)
    \/ \E n \in Leaves \cup {Root} : Hide(n)
    \/ \E n \in Leaves, s \in ScaleValues : SetScale(n, s)
    \/ \E n \in Leaves : Die(n)
    \/ \E n \in Leaves, np \in Layers \cup {None}, tb \in BOOLEAN :
            Reparent(n, np, tb)

Spec == Init /\ [][Next]_vars

(***************************************************************************)
(* The same scene with a DecorationLayer S between A (behind it) and B (in *)
(* front of it) in the child list of R.                                    *)
(***************************************************************************)
InitDecoration ==
    /\ children = [L \in Layers |-> IF L = Root THEN <<"A", "S", "B">> ELSE <<>>]
    /\ parent = [n \in Nodes |-> IF n = Root THEN None ELSE Root]
    /\ hidden = [n \in Nodes |-> FALSE]
    /\ dead = [n \in Nodes |-> FALSE]
    /\ scale = [n \in Nodes |-> <<1, 1, 1>>]
    /\ hovered_children = [L \in Layers |-> EmptyDict]
    /\ dragging_children = [L \in Layers |-> EmptyDict]
    /\ event = NoEvent
    /\ log = <<>>
    /\ raised = None
    /\ claimed = {}
    /\ motioned = {}
    /\ changes = 0
    /\ tf = NoTransformation
    /\ pair = NoPair
    /\ made = NoObject
    /\ decorations = {"S"}
    /\ walker = NoWalker
    /\ anchors = NoAnchors

SpecDecoration == InitDecoration /\ [][Next]_vars

(***************************************************************************)
(* Motion and leave events on the scene of Spec while the application sets *)
(* and clears the hidden flag of the rectangles.                           *)
(***************************************************************************)
FlagChanges == 2

SetHidden(n, v) ==
    /\ changes < FlagChanges
    /\ hidden[n] # v
    /\ hidden' = [hidden EXCEPT ![n] = v]
    /\ changes' = changes + 1
    /\ event' = NoEvent
    /\ log' = <<>>
    /\ raised' = None
    /\ UNCHANGED <<children, parent, dead, scale, hovered_children,
                   dragging_children, claimed, motioned, tf, pair, made,
                   decorations, walker, anchors>>

NextHover ==
    \/ \E p \in Pointers, pt \in EventPoints :
            \E cl \in SUBSET LeavesAt(pt) : Motion(p, pt, cl)
    \/ \E p \in Pointers, pt \in EventPoints : Leave(p, pt)
    \/ \E n \in Leaves, v \in BOOLEAN : SetHidden(n, v)

SpecHover == Init /\ [][NextHover]_vars

\* Variant of is_hidden_in: only the hidden flag is looked at.
is_hidden_flag_only(st, n) == hidden[n]

(***************************************************************************)
(* Keyboard events.  A handler may destroy a node while the event is being *)
(* routed, so the pass works on its own copy of the tree (m.tree);         *)
(* is_hidden_in is is_hidden on that copy.                                 *)
(***************************************************************************)
is_hidden_in(st, n) ==
    hidden[n] \/ st.dead[n] \/ (\A i \in 1..3 : scale[n][i] = 0)

(***************************************************************************)
(* The on_<event_type> handler of a node: the event names the nodes whose  *)
(* handler returns a true value (the base class handlers return False) and *)
(* the node whose handler calls die() on another node (e.victim).          *)
(***************************************************************************)
key_handler(m, n, by, e) ==
    LET r == IF n \in e.claimers THEN n ELSE None
    IN  [m EXCEPT !.log = Append(@, [Delivery(n, "key", 0, FALSE, by, e)
                                        EXCEPT !.ret = r]),
                  !.tree = IF e.killer = n THEN die(@, e.victim) ELSE @,
                  !.ret = r]

(***************************************************************************)
(* GraphicsObject.keyboard_event: nothing for a hidden node, otherwise the *)
(* handler's result.                                                       *)
(***************************************************************************)
GraphicsObject_keyboard_event(m, n, by, e) ==
    IF is_hidden_in(m.tree, n) THEN [m EXCEPT !.ret = None]
    ELSE key_handler(m, n, by, e)

RECURSIVE keyboard_event(_, _, _, _)
RECURSIVE key_loop(_, _, _, _, _)

\* Variant of key_loop: the children are visited back first.
RECURSIVE key_loop_forward(_, _, _, _, _)
key_loop_forward(m, L, kids, i, e) ==
    IF i = 0 THEN [m EXCEPT !.ret = None]
    ELSE LET m1 == keyboard_event(m, kids[Len(kids) - i + 1], L, e)
         IN  IF m1.ret # None THEN m1
             ELSE key_loop_forward(m1, L, kids, i - 1, e)

(***************************************************************************)
(* Layer.keyboard_event: the layer's own result if it is true; otherwise   *)
(* the children, front first, over the child list as it is when the loop   *)
(* starts, up to the first true result.  The result of the call is logged  *)
(* as a "key_result" entry.                                                *)
(***************************************************************************)
key_loop(m, L, kids, i, e) ==
    IF i = 0 THEN [m EXCEPT !.ret = None]
    ELSE LET m1 == keyboard_event(m, kids[i], L, e)
         IN  IF m1.ret # None THEN m1
             ELSE key_loop(m1, L, kids, i - 1, e)

Layer_keyboard_event(m, L, by, e) ==
    LET m1 == GraphicsObject_keyboard_event(m, L, by, e)
        m2 == IF m1.ret # None THEN m1
              ELSE key_loop(m1, L, m1.tree.children[L],
                            Len(m1.tree.children[L]), e)
    IN  [m2 EXCEPT !.log = Append(@, [Delivery(L, "key_result", 0, FALSE, by, e)
                                         EXCEPT !.ret = m2.ret])]

keyboard_event(m, n, by, e) ==
    IF n \in Layers THEN Layer_keyboard_event(m, n, by, e)
    ELSE GraphicsObject_keyboard_event(m, n, by, e)

(***************************************************************************)
(* A keyboard event arriving from the window at the root layer.  A         *)
(* handler that destroys a node makes one of the scene changes.            *)
(***************************************************************************)
KeyStep(e) ==
    \E m \in {keyboard_event([tree |-> Tree, log |-> <<>>, ret |-> None],
                             Root, "Window", e)} :
        /\ e.killer # None => changes < MaxChanges
        /\ changes' = IF e.killer # None THEN changes + 1 ELSE changes
        /\ children' = m.tree.children
        /\ parent' = m.tree.parent
        /\ dead' = m.tree.dead
        /\ event' = [kind |-> "key", pointer |-> e.pointer, button |-> 0,
                      point |-> <<0, 0, 0>>, killer |-> e.killer]
        /\ log' = m.log
        /\ raised' = None
        /\ UNCHANGED <<hidden, scale, hovered_children, dragging_children,
                       claimed, motioned, tf, pair, made, decorations,
                   walker, anchors>>

Key(k, cl, killer, victim) ==
    KeyStep([kind |-> "key", pointer |-> k, button |-> 0, point |-> <<0, 0, 0>>,
             claimers |-> cl, killer |-> killer, victim |-> victim])

Keyboards == {"main"}

\* At most one handler returns a true value.
KeyClaimers == {{}} \cup {{n} : n \in Nodes}

(***************************************************************************)
(* Drawing.  The pass works on m: the current matrix of the                *)
(* GlTransformation (the sequence of operations applied since reset), its  *)
(* stack of saved matrices, the log and the exception being propagated.    *)
(* Each log entry carries the stack depth and the matrix after it.         *)
(***************************************************************************)
DrawEntry(m, n, kind) ==
    [kind |-> kind, node |-> n, depth |-> Len(m.stack), matrix |-> m.matrix]

Logged(m, n, kind) == [m EXCEPT !.log = Append(@, DrawEntry(m, n, kind))]

\* GlTransformation.translate, rotate, scale
gl_op(m, n, kind, v) ==
    Logged([m EXCEPT !.matrix = Append(@, <<kind, v>>)], n, kind)

\* GlTransformation.push and pop
gl_push(m, n) == Logged([m EXCEPT !.stack = Append(@, m.matrix)], n, "push")

gl_pop(m, n) ==
    Logged([m EXCEPT !.matrix = m.stack[Len(m.stack)],
                     !.stack = SubSeq(m.stack, 1, Len(m.stack) - 1)], n, "pop")

\* Variant of state_exit: the matrix is not restored when the body raised.
state_exit_unless_raised(m, n) == IF m.err # None THEN m ELSE gl_pop(m, n)

(***************************************************************************)
(* BaseTransformation.state: push on entry; the pop is in a `finally`, so  *)
(* it runs whether the body returned or raised.                            *)
(***************************************************************************)
state_enter(m, n) == gl_push(m, n)

state_exit(m, n) == gl_pop(m, n)

\* GraphicsObject.transform on the GlTransformation.
gl_transform(m, n) ==
    LET m1 == gl_op(m, n, "translate", position(n))
        m2 == gl_op(m1, n, "rotate", <<0, 0, 1>>)
        m3 == gl_op(m2, n, "scale", scale[n])
    IN  gl_op(m3, n, "translate",
              <<0 - anchor(n)[1], 0 - anchor(n)[2], 0 - anchor(n)[3]>>)

RECURSIVE do_draw(_, _, _)
RECURSIVE draw_children(_, _, _, _)

(***************************************************************************)
(* Layer.draw: translate by the anchor, then do_draw of every child in     *)
(* list order; an exception ends the loop.                                 *)
(***************************************************************************)
draw_children(m, L, i, e) ==
    IF i > Len(children[L]) \/ m.err # None THEN m
    ELSE draw_children(do_draw(m, children[L][i], e), L, i + 1, e)

\* draw of a node; the draw method of e.thrower raises.
draw(m, n, e) ==
    IF n = e.thrower THEN [m EXCEPT !.err = "Exception"]
    ELSE IF n \in Layers
    THEN draw_children(gl_op(m, n, "translate", anchor(n)), n, 1, e)
    ELSE Logged(gl_op(m, n, "scale", <<size(n)[1], size(n)[2], 1>>), n, "draw")

(***************************************************************************)
(* GraphicsObject.do_draw: nothing for a hidden node; otherwise transform  *)
(* and draw inside a transformation state.  The call and its exit (return  *)
(* or raise) are logged.                                                   *)
(***************************************************************************)
do_draw(m, n, e) ==
    LET m0 == Logged(m, n, "call")
    IN  IF is_hidden(n) THEN Logged(m0, n, "return")
        ELSE LET m1 == state_enter(m0, n)
                 m2 == draw(gl_transform(m1, n), n, e)
                 m3 == state_exit(m2, n)
             IN  Logged(m3, n, IF m3.err # None THEN "raise" ELSE "return")

(***************************************************************************)
(* Window.on_draw: a fresh GlTransformation is reset and the root layer's  *)
(* do_draw is called.                                                      *)
(***************************************************************************)
Window_on_draw(e) ==
    do_draw([matrix |-> <<>>, stack |-> <<>>, log |-> <<>>, err |-> None],
            Root, e)

Draw(thrower) ==
    \E m \in {Window_on_draw([thrower |-> thrower])} :
        /\ event' = [kind |-> "draw", pointer |-> None, button |-> 0,
                      point |-> <<0, 0, 0>>]
        /\ log' = m.log
        /\ raised' = m.err
        /\ UNCHANGED <<children, parent, hidden, dead, scale, hovered_children,
                       dragging_children, claimed, motioned, changes, tf,
                       pair, made, decorations,
                   walker, anchors>>

(***************************************************************************)
(* The nested scene: R holds layer S (behind) and rectangle A (in front),  *)
(* S holds rectangle B.  It is drawn, given keyboard events and changed by *)
(* the application, up to SceneChanges times.                              *)
(***************************************************************************)
SceneChanges == 3

InitScene ==
    /\ children = [L \in Layers |-> IF L = Root THEN <<"S", "A">> ELSE <<"B">>]
    /\ parent = [n \in Nodes |-> CASE n = Root -> None
                                   [] n = "B" -> "S"
                                   [] OTHER -> Root]
    /\ hidden = [n \in Nodes |-> FALSE]
    /\ dead = [n \in Nodes |-> FALSE]
    /\ scale = [n \in Nodes |-> <<1, 1, 1>>]
    /\ hovered_children = [L \in Layers |-> EmptyDict]
    /\ dragging_children = [L \in Layers |-> EmptyDict]
    /\ event = NoEvent
    /\ log = <<>>
    /\ raised = None
    /\ claimed = {}
    /\ motioned = {}
    /\ changes = MaxChanges - SceneChanges
    /\ tf = NoTransformation
    /\ pair = NoPair
    /\ made = NoObject
    /\ decorations = {}
    /\ walker = NoWalker
    /\ anchors = NoAnchors

NextScene ==
    \/ \E thrower \in Nodes \cup {None} : Draw(thrower)
    \/ \E k \in Keyboards, cl \in KeyClaimers : Key(k, cl, None, None)
    \/ \E k \in Keyboards, killer \in Nodes, victim \in Nodes :
            Key(k, {}, killer, victim)
    \/ \E n \in Nodes : Hide(n)
    \/ \E n \in Nodes \ {Root}, s \in ScaleValues : SetScale(n, s)
    \/ \E n \in Nodes : Die(n)
    \/ \E n \in Nodes \ {Root}, np \in Layers \cup {None}, tb \in BOOLEAN :
            Reparent(n, np, tb)

SpecScene == InitScene /\ [][NextScene]_vars

(***************************************************************************)
(* Pointer events, keyboard events and draw passes on the scene of Spec.   *)
(***************************************************************************)
NextInput ==
    \/ Next
    \/ \E k \in Keyboards, cl \in KeyClaimers : Key(k, cl, None, None)
    \/ \E k \in Keyboards, killer \in Nodes, victim \in Nodes :
            Key(k, {}, killer, victim)
    \/ Draw(None)

SpecInput == Init /\ [][NextInput]_vars

(***************************************************************************)
(* The scene of Spec, the root layer or rectangle A constructed with an    *)
(* anchor: motion and press events, and draw passes.                       *)
(***************************************************************************)
AnchorValues == {<<0, 0, 0>>, <<1, 0, 0>>}

InitAnchor ==
    /\ children = [L \in Layers |-> IF L = Root THEN <<"A", "B">> ELSE <<>>]
    /\ parent = [n \in Nodes |-> IF n \in Layers THEN None ELSE Root]
    /\ hidden = [n \in Nodes |-> FALSE]
    /\ dead = [n \in Nodes |-> FALSE]
    /\ scale = [n \in Nodes |-> <<1, 1, 1>>]
    /\ hovered_children = [L \in Layers |-> EmptyDict]
    /\ dragging_children = [L \in Layers |-> EmptyDict]
    /\ event = NoEvent
    /\ log = <<>>
    /\ raised = None
    /\ claimed = {}
    /\ motioned = {}
    /\ changes = 0
    /\ tf = NoTransformation
    /\ pair = NoPair
    /\ made = NoObject
    /\ decorations = {}
    /\ walker = NoWalker
    /\ \E r \in AnchorValues, a \in AnchorValues :
          anchors = [NoAnchors EXCEPT ![Root] = r, !["A"] = a]

NextAnchor ==
    \/ \E p \in Pointers, pt \in EventPoints, cl \in SUBSET Leaves :
            Motion(p, pt, cl)
    \/ \E p \in Pointers, b \in Buttons, pt \in EventPoints,
          cl \in SUBSET Leaves : Press(p, b, pt, cl)
    \/ Draw(None)

SpecAnchor == InitAnchor /\ [][NextAnchor]_vars

(***************************************************************************)
(* PointTransformation and MatrixTransformation used on their own.         *)
(* A transformation is t = [cls, value, original, stack]: value is the     *)
(* point of a PointTransformation or the 16 elements of a                  *)
(* MatrixTransformation (row-major; element k of the source is k + 1       *)
(* here), original is original_point.  The source computes in floating     *)
(* point; the operands below are chosen so that every result is an exact   *)
(* integer (divisors 1 and -1, rotation by 180 degrees taken as exact).    *)
(* An operation yields [t, err]: the transformation after it and the       *)
(* exception it raised, or None.                                           *)
(***************************************************************************)
MaxEntry == 1
MaxStack == 3
MaxDepth == 3
MaxOps == 3

identity == <<1, 0, 0, 0,  0, 1, 0, 0,  0, 0, 1, 0,  0, 0, 0, 1>>

Ok(t) == [t |-> t, err |-> None]

\* Variant of Matrix_premultiply: the supplied matrix goes on the right.
Matrix_postmultiply(t, m2) ==
    LET m1 == t.value
        m  == [i \in 1..16 |->
                 LET r == (i - 1) \div 4
                     c == (i - 1) % 4
                 IN  m1[4 * r + 1] * m2[c + 1] + m1[4 * r + 2] * m2[c + 5]
                       + m1[4 * r + 3] * m2[c + 9] + m1[4 * r + 4] * m2[c + 13]]
    IN  [t |-> [t EXCEPT !.value = m],
         err |-> IF m[4] = 0 /\ m[8] = 0 /\ m[12] = 0 /\ m[16] = 1
                 THEN None ELSE "AssertionError"]

\* MatrixTransformation.premultiply: the product is assigned, then the
\* last column is asserted to be (0, 0, 0, 1).
Matrix_premultiply(t, m2) ==
    LET m1 == t.value
        m  == [i \in 1..16 |->
                 LET r == (i - 1) \div 4
                     c == (i - 1) % 4
                 IN  m2[4 * r + 1] * m1[c + 1] + m2[4 * r + 2] * m1[c + 5]
                       + m2[4 * r + 3] * m1[c + 9] + m2[4 * r + 4] * m1[c + 13]]
    IN  [t |-> [t EXCEPT !.value = m],
         err |-> IF m[4] = 0 /\ m[8] = 0 /\ m[12] = 0 /\ m[16] = 1
                 THEN None ELSE "AssertionError"]

\* True division by a divisor that is 1, -1 or (raising) 0.
Quot(a, d) == IF d = 1 THEN a ELSE 0 - a

\* PointTransformation.premultiply: the point times the inverse of the
\* matrix; the new tuple is computed before it is assigned.
Point_premultiply(t, v) ==
    LET xx == v[1]   yx == v[2]   zx == v[3]
        xy == v[5]   yy == v[6]   zy == v[7]
        xz == v[9]   yz == v[10]  zz == v[11]
        x1 == v[13]  y1 == v[14]  z1 == v[15]
        x == t.value[1]  y == t.value[2]  z == t.value[3]
        det == xx * (yy * zz - yz * zy) + yx * (xz * zy - xy * zz)
                 + (xy * yz - xz * yy) * zx
        px == Quot((0 - xy) * (yz * z1 - y1 * zz) + yy * (xz * z1 - x1 * zz)
                     - (xz * y1 - x1 * yz) * zy, det)
                + Quot(x * (yy * zz - yz * zy), det)
                + Quot(y * (xz * zy - xy * zz), det)
                + Quot((xy * yz - xz * yy) * z, det)
        py == Quot(xx * (yz * z1 - y1 * zz) - yx * (xz * z1 - x1 * zz)
                     + (xz * y1 - x1 * yz) * zx, det)
                + Quot(x * (yz * zx - yx * zz), det)
                + Quot(y * (xx * zz - xz * zx), det)
                + Quot((xz * yx - xx * yz) * z, det)
        pz == Quot((0 - xx) * (yy * z1 - y1 * zy) + yx * (xy * z1 - x1 * zy)
                     - (xy * y1 - x1 * yy) * zx, det)
                + Quot(x * (yx * zy - yy * zx), det)
                + Quot(y * (xy * zx - xx * zy), det)
                + Quot((xx * yy - xy * yx) * z, det)
    IN  IF det = 0 THEN [t |-> t, err |-> "ZeroDivisionError"]
        ELSE Ok([t EXCEPT !.value = <<px, py, pz>>])

T_premultiply(t, v) ==
    IF t.cls = "Point" THEN Point_premultiply(t, v) ELSE Matrix_premultiply(t, v)

\* translate: PointTransformation subtracts; MatrixTransformation inherits
\* BaseTransformation.translate.
T_translate(t, v) ==
    IF t.cls = "Point"
    THEN Ok([t EXCEPT !.value = <<@[1] - v[1], @[2] - v[2], @[3] - v[3]>>])
    ELSE Matrix_premultiply(t, <<1, 0, 0, 0,  0, 1, 0, 0,  0, 0, 1, 0,
                                 v[1], v[2], v[3], 1>>)

\* Variant of T_scale: a PointTransformation scaled by zero gets a zero
\* coordinate instead of an exception.
T_scale_zero_silent(t, v) ==
    IF t.cls = "Point"
    THEN Ok([t EXCEPT !.value =
                <<IF v[1] = 0 THEN 0 ELSE Quot(@[1], v[1]),
                  IF v[2] = 0 THEN 0 ELSE Quot(@[2], v[2]),
                  IF v[3] = 0 THEN 0 ELSE Quot(@[3], v[3])>>])
    ELSE Matrix_premultiply(t, <<v[1], 0, 0, 0,  0, v[2], 0, 0,
                                 0, 0, v[3], 0,  0, 0, 0, 1>>)

\* scale: PointTransformation divides; MatrixTransformation inherits
\* BaseTransformation.scale.
T_scale(t, v) ==
    IF t.cls = "Point"
    THEN IF \E i \in 1..3 : v[i] = 0
         THEN [t |-> t, err |-> "ZeroDivisionError"]
         ELSE Ok([t EXCEPT !.value = <<Quot(@[1], v[1]), Quot(@[2], v[2]),
                                       Quot(@[3], v[3])>>])
    ELSE Matrix_premultiply(t, <<v[1], 0, 0, 0,  0, v[2], 0, 0,
                                 0, 0, v[3], 0,  0, 0, 0, 1>>)

\* cos and sin of a multiple of 90 degrees, taken as exact.
cos_deg(angle) ==
    CASE angle % 360 = 0 -> 1
      [] angle % 360 = 180 -> 0 - 1
      [] OTHER -> 0

sin_deg(angle) ==
    CASE angle % 360 = 90 -> 1
      [] angle % 360 = 270 -> 0 - 1
      [] OTHER -> 0

\* Variant of T_rotate: the point is turned the same way as the object.
T_rotate_point_forward(t, angle) ==
    IF angle = 0 THEN Ok(t)
    ELSE LET c == cos_deg(angle)
             s == sin_deg(angle)
             d == 1 - c
         IN  IF t.cls = "Point"
             THEN Ok([t EXCEPT !.value = <<@[1] * c - @[2] * s,
                                           @[1] * s + @[2] * c, @[3]>>])
             ELSE Matrix_premultiply(t, <<c, s, 0, 0,  0 - s, c, 0, 0,
                                          0, 0, d + c, 0,  0, 0, 0, 1>>)

\* rotate about the z axis by a multiple of 90 degrees: nothing for angle
\* 0; PointTransformation's in-plane formula; MatrixTransformation inherits
\* BaseTransformation.rotate.
T_rotate(t, angle) ==
    IF angle = 0 THEN Ok(t)
    ELSE LET c == cos_deg(angle)
             s == sin_deg(angle)
             d == 1 - c
         IN  IF t.cls = "Point"
             THEN Ok([t EXCEPT !.value = <<@[2] * s + @[1] * c,
                                           @[2] * c - @[1] * s, @[3]>>])
             ELSE Matrix_premultiply(t, <<c, s, 0, 0,  0 - s, c, 0, 0,
                                          0, 0, d + c, 0,  0, 0, 0, 1>>)

T_reset(t) ==
    [t EXCEPT !.value = IF t.cls = "Point" THEN t.original ELSE identity]

\* Variant of T_pop: the saved state is dropped, not restored.
T_pop_discard(t) ==
    [t EXCEPT !.stack = SubSeq(@, 1, Len(@) - 1)]

T_push(t) == [t EXCEPT !.stack = Append(@, t.value)]

T_pop(t) ==
    [t EXCEPT !.value = t.stack[Len(t.stack)],
              !.stack = SubSeq(@, 1, Len(@) - 1)]

(***************************************************************************)
(* One transformation object driven by a caller.  tf.ctx lists the open    *)
(* contexts, innermost last: "push" for a bare push() awaiting its pop(),  *)
(* "state" for a `with t.state` block; each remembers the value and stack  *)
(* it was entered with.  An exception raised by an operation leaves the    *)
(* enclosing `state` blocks one by one, each running its pop(); bare       *)
(* pushes made inside a block that is left this way are never popped.      *)
(***************************************************************************)
T(x) == [cls |-> x.cls, value |-> x.value, original |-> x.original,
         stack |-> x.stack]

WithT(x, t) == [x EXCEPT !.value = t.value, !.stack = t.stack]

Entered(x, kind) ==
    [x EXCEPT !.ctx = Append(@, [kind |-> kind, value |-> x.value,
                                 stack |-> x.stack]),
              !.last = kind]

InRange(v) == \A i \in 1..Len(v) : v[i] >= 0 - MaxEntry /\ v[i] <= MaxEntry

TfStep(x) ==
    /\ tf' = x
    /\ UNCHANGED <<children, parent, hidden, dead, scale, hovered_children,
                   dragging_children, event, log, raised, claimed, motioned,
                   changes, pair, made, decorations,
                   walker, anchors>>

\* translate, rotate, scale, premultiply or reset called by the caller.
Operate(r) ==
    /\ tf.raising = None
    /\ tf.ops < MaxOps
    /\ InRange(r.t.value)
    /\ TfStep([WithT(tf, r.t) EXCEPT !.raising = r.err, !.ops = @ + 1,
                                   !.last = "op"])

Translations == {<<1, 0, 0>>, <<0, 0 - 1, 0>>}

Scalings == {<<0 - 1, 1, 1>>, <<0, 1, 1>>}

Angles == {0, 180}

\* The matrices given to premultiply: x and y exchanged; a matrix whose
\* last column is not (0, 0, 0, 1); a singular matrix.
SwapXY == <<0, 1, 0, 0,  1, 0, 0, 0,  0, 0, 1, 0,  0, 0, 0, 1>>

BadColumn == <<1, 0, 0, 1,  0, 1, 0, 0,  0, 0, 1, 0,  0, 0, 0, 1>>

Singular == <<0, 0, 0, 0,  0, 0, 0, 0,  0, 0, 0, 0,  0, 0, 0, 1>>

Premultipliers == {SwapXY, BadColumn, Singular}

Translate(v) == Operate(T_translate(T(tf), v))

Scale(v) == Operate(T_scale(T(tf), v))

Rotate(angle) == Operate(T_rotate(T(tf), angle))

Premultiply(v) == Operate(T_premultiply(T(tf), v))

Reset == Operate(Ok(T_reset(T(tf))))

Push ==
    /\ tf.raising = None
    /\ Len(tf.ctx) < MaxDepth /\ Len(tf.stack) < MaxStack
    /\ TfStep(WithT(Entered(tf, "push"), T_push(T(tf))))

Pop ==
    /\ tf.raising = None
    /\ tf.ctx # <<>> /\ tf.ctx[Len(tf.ctx)].kind = "push"
    /\ TfStep([WithT(tf, T_pop(T(tf))) EXCEPT
                  !.ctx = SubSeq(@, 1, Len(@) - 1), !.last = "pop"])

\* BaseTransformation.state: push() on entry.
StateEnter ==
    /\ tf.raising = None
    /\ Len(tf.ctx) < MaxDepth /\ Len(tf.stack) < MaxStack
    /\ TfStep(WithT(Entered(tf, "state"), T_push(T(tf))))

\* The body of the innermost `with t.state` block ends: finally, pop().
StateExit ==
    /\ tf.raising = None
    /\ tf.ctx # <<>> /\ tf.ctx[Len(tf.ctx)].kind = "state"
    /\ TfStep([WithT(tf, T_pop(T(tf))) EXCEPT
                  !.ctx = SubSeq(@, 1, Len(@) - 1), !.last = "exit"])

StateContexts(x) == {k \in 1..Len(x.ctx) : x.ctx[k].kind = "state"}

Innermost(x) == CHOOSE k \in StateContexts(x) : \A j \in StateContexts(x) : j <= k

\* The exception leaves the innermost `with t.state` block: finally, pop().
StateUnwind ==
    /\ tf.raising # None
    /\ StateContexts(tf) # {}
    /\ TfStep([WithT(tf, T_pop(T(tf))) EXCEPT
                  !.ctx = SubSeq(@, 1, Innermost(tf) - 1), !.last = "unwind"])

\* The exception reaches the caller, outside every block.
Caught ==
    /\ tf.raising # None
    /\ StateContexts(tf) = {}
    /\ TfStep([tf EXCEPT !.ctx = <<>>, !.raising = None, !.last = "caught"])

Points == {<<0, 0, 0>>, <<1, 0, 0>>}

InitTransform ==
    /\ children = [L \in Layers |-> <<>>]
    /\ parent = [n \in Nodes |-> None]
    /\ hidden = [n \in Nodes |-> FALSE]
    /\ dead = [n \in Nodes |-> FALSE]
    /\ scale = [n \in Nodes |-> <<1, 1, 1>>]
    /\ hovered_children = [L \in Layers |-> EmptyDict]
    /\ dragging_children = [L \in Layers |-> EmptyDict]
    /\ event = NoEvent
    /\ log = <<>>
    /\ raised = None
    /\ claimed = {}
    /\ motioned = {}
    /\ changes = 0
    /\ pair = NoPair
    /\ made = NoObject
    /\ decorations = {}
    /\ walker = NoWalker
    /\ anchors = NoAnchors
    /\ \/ \E p \in Points :
            tf = [NoTransformation EXCEPT !.cls = "Point", !.value = p,
                                          !.original = p]
       \/ tf = [NoTransformation EXCEPT !.cls = "Matrix", !.value = identity]

NextTransform ==
    \/ \E v \in Translations : Translate(v)
    \/ \E v \in Scalings : Scale(v)
    \/ \E angle \in Angles : Rotate(angle)
    \/ \E v \in Premultipliers : Premultiply(v)
    \/ Reset
    \/ Push
    \/ Pop
    \/ StateEnter
    \/ StateExit
    \/ StateUnwind
    \/ Caught

SpecTransform == InitTransform /\ [][NextTransform]_vars

(***************************************************************************)
(* MatrixTransformation.inverse and transform_point.  The determinant of   *)
(* the upper-left 3x3 block is summed from its six products; ValueError is *)
(* raised when it is zero (the relative-size test of the source cannot     *)
(* succeed for a non-zero integer determinant).  The matrices met here     *)
(* have determinant 1, -1 or 0, so that 1 / det is det.                    *)
(***************************************************************************)
Det3(m) ==
    m[1] * m[6] * m[11] + m[2] * m[7] * m[9] + m[3] * m[5] * m[10]
      - m[3] * m[6] * m[9] - m[2] * m[5] * m[11] - m[1] * m[7] * m[10]

\* Variant of Matrix_inverse: the translation row is not carried over.
Matrix_inverse_linear_only(m) ==
    LET d == Det3(m)
    IN  IF d = 0 THEN [value |-> m, err |-> "ValueError"]
        ELSE [value |-> << (m[6] * m[11] - m[7] * m[10]) * d,
                           (0 - (m[2] * m[11] - m[3] * m[10])) * d,
                           (m[2] * m[7] - m[3] * m[6]) * d, 0,
                           (0 - (m[5] * m[11] - m[7] * m[9])) * d,
                           (m[1] * m[11] - m[3] * m[9]) * d,
                           (0 - (m[1] * m[7] - m[3] * m[5])) * d, 0,
                           (m[5] * m[10] - m[6] * m[9]) * d,
                           (0 - (m[1] * m[10] - m[2] * m[9])) * d,
                           (m[1] * m[6] - m[2] * m[5]) * d, 0,
                           0, 0, 0, 1 >>,
              err |-> None]

Matrix_inverse(m) ==
    LET d == Det3(m)
        m0 == (m[6] * m[11] - m[7] * m[10]) * d
        m1 == (0 - (m[2] * m[11] - m[3] * m[10])) * d
        m2 == (m[2] * m[7] - m[3] * m[6]) * d
        m4 == (0 - (m[5] * m[11] - m[7] * m[9])) * d
        m5 == (m[1] * m[11] - m[3] * m[9]) * d
        m6 == (0 - (m[1] * m[7] - m[3] * m[5])) * d
        m8 == (m[5] * m[10] - m[6] * m[9]) * d
        m9 == (0 - (m[1] * m[10] - m[2] * m[9])) * d
        m10 == (m[1] * m[6] - m[2] * m[5]) * d
    IN  IF d = 0 THEN [value |-> m, err |-> "ValueError"]
        ELSE [value |-> << m0, m1, m2, 0,
                           m4, m5, m6, 0,
                           m8, m9, m10, 0,
                           0 - (m[13] * m0 + m[14] * m4 + m[15] * m8),
                           0 - (m[13] * m1 + m[14] * m5 + m[15] * m9),
                           0 - (m[13] * m2 + m[14] * m6 + m[15] * m10),
                           1 >>,
              err |-> None]

Matrix_transform_point(m, p) ==
    LET inv == Matrix_inverse(m)
        i == inv.value
    IN  IF inv.err # None THEN [value |-> p, err |-> inv.err]
        ELSE [value |-> << p[1] * i[1] + p[2] * i[5] + p[3] * i[9] + i[13],
                           p[1] * i[2] + p[2] * i[6] + p[3] * i[10] + i[14],
                           p[1] * i[3] + p[2] * i[7] + p[3] * i[11] + i[15] >>,
              err |-> None]

(***************************************************************************)
(* A PointTransformation built from p and a MatrixTransformation, given    *)
(* the same operations one after the other.  An operation that raises in   *)
(* one of them, or that is not invertible, ends the comparison until both  *)
(* are reset.                                                              *)
(***************************************************************************)
AsPoint(x) == [cls |-> "Point", value |-> x.point, original |-> x.p, stack |-> <<>>]

AsMatrix(x) == [cls |-> "Matrix", value |-> x.matrix, original |-> <<>>, stack |-> <<>>]

PairStep(x) ==
    /\ pair' = x
    /\ UNCHANGED <<children, parent, hidden, dead, scale, hovered_children,
                   dragging_children, event, log, raised, claimed, motioned,
                   changes, tf, made, decorations,
                   walker, anchors>>

Both(rp, rm, invertible, op) ==
    /\ pair.regular
    /\ InRange(rp.t.value) /\ InRange(rm.t.value)
    /\ PairStep([pair EXCEPT !.point = rp.t.value, !.matrix = rm.t.value,
                             !.perr = rp.err, !.merr = rm.err,
                             !.regular = invertible /\ rp.err = None
                                           /\ rm.err = None,
                             !.last = op])

PairScalings == {<<0 - 1, 1, 1>>, <<1, 0 - 1, 1>>, <<0, 1, 1>>, <<1, 1, 0>>}

PairAngles == {0, 90, 180}

ShearXY == <<1, 1, 0, 0,  0, 1, 0, 0,  0, 0, 1, 0,  1, 0, 0, 1>>

PairPremultipliers == {SwapXY, ShearXY, Singular}

BothTranslate(v) ==
    Both(T_translate(AsPoint(pair), v), T_translate(AsMatrix(pair), v), TRUE,
         <<"translate", v>>)

BothScale(v) ==
    Both(T_scale(AsPoint(pair), v), T_scale(AsMatrix(pair), v),
         \A i \in 1..3 : v[i] # 0, <<"scale", v>>)

BothRotate(angle) ==
    Both(T_rotate(AsPoint(pair), angle), T_rotate(AsMatrix(pair), angle), TRUE,
         <<"rotate", angle>>)

BothPremultiply(v) ==
    Both(T_premultiply(AsPoint(pair), v), T_premultiply(AsMatrix(pair), v),
         Det3(v) # 0, <<"premultiply", v>>)

BothReset ==
    PairStep([pair EXCEPT !.point = T_reset(AsPoint(pair)).value,
                          !.matrix = T_reset(AsMatrix(pair)).value,
                          !.perr = None, !.merr = None, !.regular = TRUE,
                          !.last = <<"reset">>])

PairPoints == {<<0, 0, 0>>, <<1, 0, 0>>, <<0, 1, 1>>}

InitPair ==
    /\ children = [L \in Layers |-> <<>>]
    /\ parent = [n \in Nodes |-> None]
    /\ hidden = [n \in Nodes |-> FALSE]
    /\ dead = [n \in Nodes |-> FALSE]
    /\ scale = [n \in Nodes |-> <<1, 1, 1>>]
    /\ hovered_children = [L \in Layers |-> EmptyDict]
    /\ dragging_children = [L \in Layers |-> EmptyDict]
    /\ event = NoEvent
    /\ log = <<>>
    /\ raised = None
    /\ claimed = {}
    /\ motioned = {}
    /\ changes = 0
    /\ tf = NoTransformation
    /\ \E p \in PairPoints :
          pair = [NoPair EXCEPT !.p = p, !.point = p, !.matrix = identity]
    /\ made = NoObject
    /\ decorations = {}
    /\ walker = NoWalker
    /\ anchors = NoAnchors

NextPair ==
    \/ \E v \in Translations : BothTranslate(v)
    \/ \E v \in PairScalings : BothScale(v)
    \/ \E angle \in PairAngles : BothRotate(angle)
    \/ \E v \in PairPremultipliers : BothPremultiply(v)
    \/ BothReset

SpecPair == InitPair /\ [][NextPair]_vars

(***************************************************************************)
(* Construction of a node: GraphicsObject.__init__ attaches the new object *)
(* to its parent, then hands the remaining keyword arguments to            *)
(* set_animated_properties, which assigns those that name an               *)
(* AnimatedProperty of the class, collects the others and raises one       *)
(* TypeError listing them.  The keyword arguments are a dictionary: the    *)
(* names are distinct and come in any order.                               *)
(***************************************************************************)
MaxKwargs == 3

KwNames == {"scale", "rotation", "hidden", "draw", "colour"}

\* getattr(type(self), name) finds a class attribute.
has_attribute(name) == name \in {"scale", "rotation", "hidden", "draw"}

\* isinstance(prop, gillcup.AnimatedProperty)
is_animated(name) == name \in {"scale", "rotation"}

RECURSIVE kwargs_loop(_, _, _)
kwargs_loop(kwargs, i, st) ==
    IF i > Len(kwargs) THEN st
    ELSE IF has_attribute(kwargs[i]) /\ is_animated(kwargs[i])
         THEN kwargs_loop(kwargs, i + 1,
                          [st EXCEPT !.assigned = Append(@, kwargs[i])])
         ELSE kwargs_loop(kwargs, i + 1,
                          [st EXCEPT !.unknown = Append(@, kwargs[i])])

\* Variant of set_animated_properties: the error lists the first unknown
\* name only.
set_animated_properties_first_only(kwargs) ==
    LET st == kwargs_loop(kwargs, 1, [assigned |-> <<>>, unknown |-> <<>>])
    IN  IF st.unknown # <<>>
        THEN [assigned |-> st.assigned, err |-> "TypeError",
              unknown |-> <<Head(st.unknown)>>]
        ELSE [assigned |-> st.assigned, err |-> None, unknown |-> <<>>]

set_animated_properties(kwargs) ==
    LET st == kwargs_loop(kwargs, 1, [assigned |-> <<>>, unknown |-> <<>>])
    IN  IF st.unknown # <<>>
        THEN [assigned |-> st.assigned, err |-> "TypeError",
              unknown |-> st.unknown]
        ELSE [assigned |-> st.assigned, err |-> None, unknown |-> <<>>]

\* The dictionaries of at most MaxKwargs arguments, in every iteration order.
KwargsOrders ==
    {kw \in UNION {[1..k -> KwNames] : k \in 0..MaxKwargs} :
        \A i, j \in 1..Len(kw) : i # j => kw[i] # kw[j]}

\* Node n is constructed with the given parent and keyword arguments; s is
\* the value given for scale, if scale is among them.
Construct(n, new_parent, to_back, kwargs, s) ==
    /\ n \notin made.called
    /\ new_parent \in {None} \cup (Layers \cap made.built)
    /\ \E r \in {set_animated_properties(kwargs)} :
        \E st \in {reparent(Tree, n, new_parent, to_back)} :
            /\ children' = st.children
            /\ parent' = st.parent
            /\ dead' = [dead EXCEPT ![n] = FALSE]
            /\ scale' = IF \E i \in 1..Len(r.assigned) : r.assigned[i] = "scale"
                        THEN [scale EXCEPT ![n] = s] ELSE scale
            /\ made' = [node |-> n, kwargs |-> kwargs,
                        assigned |-> r.assigned, err |-> r.err,
                        unknown |-> r.unknown,
                        called |-> made.called \cup {n},
                        built |-> IF r.err = None THEN made.built \cup {n}
                                  ELSE made.built]
    /\ UNCHANGED <<hidden, hovered_children, dragging_children, event, log,
                   raised, claimed, motioned, changes, tf, pair, decorations,
                   walker, anchors>>

\* The root layer exists; the other nodes are still to be constructed.
InitConstruct ==
    /\ children = [L \in Layers |-> <<>>]
    /\ parent = [n \in Nodes |-> None]
    /\ hidden = [n \in Nodes |-> FALSE]
    /\ dead = [n \in Nodes |-> FALSE]
    /\ scale = [n \in Nodes |-> <<1, 1, 1>>]
    /\ hovered_children = [L \in Layers |-> EmptyDict]
    /\ dragging_children = [L \in Layers |-> EmptyDict]
    /\ event = NoEvent
    /\ log = <<>>
    /\ raised = None
    /\ claimed = {}
    /\ motioned = {}
    /\ changes = 0
    /\ tf = NoTransformation
    /\ pair = NoPair
    /\ made = [NoObject EXCEPT !.called = {Root}, !.built = {Root}]
    /\ decorations = {}
    /\ walker = NoWalker
    /\ anchors = NoAnchors

\* The nodes constructed here: a layer and a rectangle.
NewNodes == {"S", "A"}

NextConstruct ==
    \E n \in NewNodes, new_parent \in Layers \cup {None}, to_back \in BOOLEAN,
       kwargs \in KwargsOrders, s \in ScaleValues :
        Construct(n, new_parent, to_back, kwargs, s)

SpecConstruct == InitConstruct /\ [][NextConstruct]_vars

(***************************************************************************)
(* TreeWalker of the debugger.  A walker is given by its list of children, *)
(* each a walker again (all expanded, so that len(self) is the length of   *)
(* the list).  A position is a list of indices, counted from 0 as in the   *)
(* source, into the lists of successive walkers; [] is the walker itself.  *)
(* A method that may return None returns [none, pos]; the parameter        *)
(* `position` of the source is written `where`.                            *)
(***************************************************************************)
MaxNodes == 7

NoPos == [none |-> TRUE, pos |-> <<>>]

Pos(p) == [none |-> FALSE, pos |-> p]

RECURSIVE next_position(_, _)
next_position(self, where) ==
    IF where # <<>>
    THEN LET index == where[1]
             pos == next_position(self[index + 1], Tail(where))
         IN  IF ~pos.none THEN Pos(<<index>> \o pos.pos)
             ELSE IF index + 1 < Len(self) THEN Pos(<<index + 1>>)
             ELSE NoPos
    ELSE IF Len(self) # 0 THEN Pos(<<0>>)
    ELSE NoPos

RECURSIVE last_position(_)
last_position(self) ==
    IF Len(self) # 0
    THEN LET last == Len(self) - 1
         IN  <<last>> \o last_position(self[last + 1])
    ELSE <<>>

\* Variant of prev_position: the item before a node with a previous sibling
\* is that sibling itself.
RECURSIVE prev_position_sibling(_, _)
prev_position_sibling(self, where) ==
    IF where # <<>>
    THEN LET index == where[1]
             pos == prev_position_sibling(self[index + 1], Tail(where))
         IN  IF ~pos.none THEN Pos(<<index>> \o pos.pos)
             ELSE IF index > 0 THEN Pos(<<index - 1>>)
             ELSE Pos(<<>>)
    ELSE NoPos

RECURSIVE prev_position(_, _)
prev_position(self, where) ==
    IF where # <<>>
    THEN LET index == where[1]
             pos == prev_position(self[index + 1], Tail(where))
         IN  IF ~pos.none THEN Pos(<<index>> \o pos.pos)
             ELSE IF index > 0
             THEN Pos(<<index - 1>> \o last_position(self[index]))
             ELSE Pos(<<>>)
    ELSE NoPos

WalkerStep(x) ==
    /\ walker' = x
    /\ UNCHANGED <<children, parent, hidden, dead, scale, hovered_children,
                   dragging_children, event, log, raised, claimed, motioned,
                   changes, tf, pair, made, decorations, anchors>>

\* get_next and get_prev, called by the list box to move the focus; nothing
\* moves when the position returned is None.
get_next ==
    \E p \in {next_position(walker.list, walker.position)} :
        /\ ~p.none
        /\ WalkerStep([walker EXCEPT !.position = p.pos, !.steps = @ + 1])

get_prev ==
    \E p \in {prev_position(walker.list, walker.position)} :
        /\ ~p.none
        /\ WalkerStep([walker EXCEPT !.position = p.pos, !.steps = @ - 1])

\* The lists of children of n nodes in all: a first child of k nodes (its
\* own list has k - 1) followed by a list of n - k nodes.
RECURSIVE Forests(_)
Forests(n) ==
    IF n = 0 THEN {<<>>}
    ELSE UNION {{<<t>> \o f : t \in Forests(k - 1), f \in Forests(n - k)} :
                    k \in 1..n}

\* Every tree of at most MaxNodes nodes, the focus on the walker itself.
InitWalker ==
    /\ children = [L \in Layers |-> <<>>]
    /\ parent = [n \in Nodes |-> None]
    /\ hidden = [n \in Nodes |-> FALSE]
    /\ dead = [n \in Nodes |-> FALSE]
    /\ scale = [n \in Nodes |-> <<1, 1, 1>>]
    /\ hovered_children = [L \in Layers |-> EmptyDict]
    /\ dragging_children = [L \in Layers |-> EmptyDict]
    /\ event = NoEvent
    /\ log = <<>>
    /\ raised = None
    /\ claimed = {}
    /\ motioned = {}
    /\ changes = 0
    /\ tf = NoTransformation
    /\ pair = NoPair
    /\ made = NoObject
    /\ decorations = {}
    /\ \E n \in 1..MaxNodes : \E l \in Forests(n - 1) :
          walker = [list |-> l, position |-> <<>>, steps |-> 0]
    /\ anchors = NoAnchors

NextWalker == get_next \/ get_prev

SpecWalker == InitWalker /\ [][NextWalker]_vars

(***************************************************************************)
(* The life of a scene: nodes are constructed (with or without an unknown  *)
(* keyword argument), reparented and destroyed by the application, the     *)
(* root layer included.  A reparent call gets a constructed layer other    *)
(* than the node itself (the assertion of reparent), or None.              *)
(***************************************************************************)
LifeKwargs == {<<>>, <<"colour">>}

InitLife ==
    /\ children = [L \in Layers |-> <<>>]
    /\ parent = [n \in Nodes |-> None]
    /\ hidden = [n \in Nodes |-> FALSE]
    /\ dead = [n \in Nodes |-> FALSE]
    /\ scale = [n \in Nodes |-> <<1, 1, 1>>]
    /\ hovered_children = [L \in Layers |-> EmptyDict]
    /\ dragging_children = [L \in Layers |-> EmptyDict]
    /\ event = NoEvent
    /\ log = <<>>
    /\ raised = None
    /\ claimed = {}
    /\ motioned = {}
    /\ changes = MaxChanges - SceneChanges
    /\ tf = NoTransformation
    /\ pair = NoPair
    /\ made = [NoObject EXCEPT !.called = {Root}, !.built = {Root}]
    /\ decorations = {}
    /\ walker = NoWalker
    /\ anchors = NoAnchors

NextLife ==
    \/ \E n \in Nodes, new_parent \in Layers \cup {None}, to_back \in BOOLEAN,
          kwargs \in LifeKwargs :
            Construct(n, new_parent, to_back, kwargs, <<1, 1, 1>>)
    \/ \E n \in made.built, np \in (Layers \cap made.built) \cup {None},
          tb \in BOOLEAN :
            Reparent(n, np, tb)
    \/ \E n \in made.built : Die(n)

SpecLife == InitLife /\ [][NextLife]_vars

(***************************************************************************)
(* Vocabulary of the properties.  They speak about the handler calls of    *)
(* the last step (log), the event that caused them and the scene.          *)
(***************************************************************************)
LayerHandled(lg, L, kind) ==
    \E i \in 1..Len(lg) : lg[i].node = L /\ lg[i].kind = kind

Sent(lg, kind, L, c, p, b) ==
    \E i \in 1..Len(lg) : /\ lg[i].kind = kind /\ lg[i].by = L /\ lg[i].node = c
                          /\ lg[i].pointer = p /\ lg[i].button = b

SentIdx(lg, kind, L, p) ==
    {i \in 1..Len(lg) : lg[i].kind = kind /\ lg[i].by = L /\ lg[i].pointer = p}

SentNodes(lg, kind, L, p) == {lg[i].node : i \in SentIdx(lg, kind, L, p)}

Captured(L, p, b) == Get(Get(dragging_children[L], p, EmptyDict), b, None)

Hovered(L, p) == Get(hovered_children[L], p, {})

\* The event's point in the coordinates of layer L (layers are not scaled).
RECURSIVE LayerPoint(_, _)
LayerPoint(L, pt) ==
    IF parent[L] = None THEN translate(pt, position(L))
    ELSE translate(LayerPoint(parent[L], pt), position(L))

\* The point lies on child c of layer L: inside its rectangle, and c has no
\* zero scale factor (a layer covers every point).
Under(L, c, pt) ==
    /\ ~(\E i \in 1..3 : scale[c][i] = 0)
    /\ c \in Leaves => Covers(c, LayerPoint(L, pt))

Behind(L, a, b) ==
    /\ Contains(children[L], a) /\ Contains(children[L], b)
    /\ IndexOf(children[L], a) < IndexOf(children[L], b)

\* Some child in front of c was sent the motion and returned a true value.
ClaimedInFront(lg, L, p, c) ==
    \E i \in SentIdx(lg, "motion", L, p) :
        lg[i].ret # None /\ Behind(L, c, lg[i].node)

\* The children of L a motion at pt is due to: on the point, not hidden,
\* and no child in front of them claimed it.
MotionDue(lg, L, p, pt) ==
    {c \in Nodes : /\ Contains(children[L], c) /\ Under(L, c, pt)
                   /\ ~is_hidden(c) /\ ~ClaimedInFront(lg, L, p, c)}

(***************************************************************************)
(* C1 (as stated): once a child's press handler has claimed (p, b), every  *)
(* motion event for p handled by the layer delivers a drag event for       *)
(* (p, b) to that child, as long as the child is in the child list, is not *)
(* dead and no release for (p, b) has been handled.                        *)
(***************************************************************************)
C1_Original ==
    [][\A t \in claimed :
          ( /\ event'.kind = "motion" /\ event'.pointer = t[2]
            /\ LayerHandled(log', t[1], "motion")
            /\ Contains(children[t[1]], t[4]) /\ ~dead[t[4]] )
          => Sent(log', "drag", t[1], t[4], t[2], t[3])]_vars

(***************************************************************************)
(* C2 (as stated): while a capture for p is active, a motion for p that    *)
(* lands outside the captured node delivers only drag to that node, and no *)
(* other child of the layer receives motion or leave in the pass.          *)
(***************************************************************************)
CaptureMissed(L, p, b, c) ==
    /\ c # None /\ Captured(L, p, b) = c /\ Contains(children[L], c)
    /\ event'.kind = "motion" /\ event'.pointer = p
    /\ LayerHandled(log', L, "motion")
    /\ ~Under(L, c, event'.point)

C3_Original ==
    event.kind = "release"
    => \A L \in Layers :
          LayerHandled(log, L, "release")
          => Captured(L, event.pointer, event.button) = None

(***************************************************************************)
(* C4 (as stated): a node that claimed a press for (p, b) is delivered a   *)
(* release event the next time its layer handles a release for (p, b),     *)
(* wherever the pointer is, provided it is still a child of the layer and  *)
(* has not died.                                                           *)
(***************************************************************************)
C4_Original ==
    [][\A t \in claimed :
          ( /\ event'.kind = "release"
            /\ event'.pointer = t[2] /\ event'.button = t[3]
            /\ LayerHandled(log', t[1], "release")
            /\ Contains(children[t[1]], t[4]) /\ ~dead[t[4]] )
          => Sent(log', "release", t[1], t[4], t[2], t[3])]_vars

C6_FrontFirst ==
    [][\A k \in 1..Len(log') :
          (log'[k].kind = "motion" /\ log'[k].node \in Layers)
          => LET L == log'[k].node
                 p == log'[k].pointer
                 sent == SentIdx(log', "motion", L, p)
             IN  /\ \A i \in sent :
                       /\ Contains(children[L], log'[i].node)
                       /\ Under(L, log'[i].node, event'.point)
                 /\ \A i, j \in sent :
                       i < j => Behind(L, log'[j].node, log'[i].node)
                 /\ \A i \in sent :
                       log'[i].ret # None
                       => /\ \A j \in sent : j <= i
                          /\ log'[k].ret = log'[i].ret
                 /\ (\A i \in sent : log'[i].ret = None) => log'[k].ret = None
                 /\ SentNodes(log', "motion", L, p)
                        = MotionDue(log', L, p, event'.point)]_vars

\* B, in front, let the motion pass and A, behind it, claimed it.
C6_Witness ==
    /\ event.kind = "motion"
    /\ Len(log) = 3
    /\ log[1].node = Root /\ log[1].ret = "A"
    /\ log[2].node = "B" /\ log[2].ret = None
    /\ log[3].node = "A" /\ log[3].ret = "A"

(***************************************************************************)
(* C7 (as stated): after a layer has handled a motion for p, hover[p] is   *)
(* exactly the set of children that were delivered motion in that pass,    *)
(* and holds no hidden or dead child.                                      *)
(***************************************************************************)
C7_Original ==
    event.kind = "motion"
    => \A L \in Layers :
          LayerHandled(log, L, "motion")
          => /\ Hovered(L, event.pointer)
                    = SentNodes(log, "motion", L, event.pointer)
             /\ \A c \in Hovered(L, event.pointer) : ~hidden[c] /\ ~dead[c]

(***************************************************************************)
(* C8 (as stated): with sibling rectangles A added first and B second that *)
(* overlap, a motion inside both is delivered to B only; A receives no     *)
(* motion in that pass.                                                    *)
(***************************************************************************)
Overlapped(L, a, b) ==
    /\ event'.kind = "motion" /\ LayerHandled(log', L, "motion")
    /\ a \in Leaves /\ b \in Leaves /\ Behind(L, a, b)
    /\ Under(L, a, event'.point) /\ Under(L, b, event'.point)

C8_Original ==
    [][\A L \in Layers, a \in Nodes, b \in Nodes :
          Overlapped(L, a, b)
          => /\ b \in SentNodes(log', "motion", L, event'.pointer)
             /\ a \notin SentNodes(log', "motion", L, event'.pointer)]_vars

(***************************************************************************)
(* C8 (amended): a motion inside both is offered to B before A; A receives *)
(* no motion in that pass when a child in front of it (B) returned a true  *)
(* value; when none did (the default handler returns a false value) or B   *)
(* is hidden, A receives the motion too, unless A is hidden itself.        *)
(***************************************************************************)
C8_Amended ==
    [][\A L \in Layers, a \in Nodes, b \in Nodes :
          Overlapped(L, a, b)
          => LET p == event'.pointer
                 sent == SentIdx(log', "motion", L, p)
             IN  /\ \A i, j \in sent :
                       (log'[i].node = b /\ log'[j].node = a) => i < j
                 /\ (\E i \in sent : log'[i].node = b /\ log'[i].ret # None)
                       => a \notin SentNodes(log', "motion", L, p)
                 /\ (~is_hidden(a) /\ ~ClaimedInFront(log', L, p, a))
                       => a \in SentNodes(log', "motion", L, p)
                 /\ ~is_hidden(b) => b \in SentNodes(log', "motion", L, p)]_vars

\* B claimed the motion inside the overlap and A, not hidden, got none.
C8_Witness ==
    /\ event.kind = "motion"
    /\ Behind(Root, "A", "B")
    /\ Under(Root, "A", event.point) /\ Under(Root, "B", event.point)
    /\ ~is_hidden("A")
    /\ \E i \in 1..Len(log) : log[i].node = "B" /\ log[i].ret # None
    /\ "A" \notin SentNodes(log, "motion", Root, "main")

(***************************************************************************)
(* C9 (as stated): a node that was delivered motion for p receives a leave *)
(* for p in the first later motion pass of the layer that does not deliver *)
(* motion to it, unless it died first.                                     *)
(***************************************************************************)
C9_Original ==
    [][\A t \in motioned :
          ( /\ t[1] \in Layers
            /\ event'.kind = "motion" /\ event'.pointer = t[2]
            /\ LayerHandled(log', t[1], "motion")
            /\ t[3] \notin SentNodes(log', "motion", t[1], t[2])
            /\ ~dead[t[3]] )
          => t[3] \in SentNodes(log', "leave", t[1], t[2])]_vars

(***************************************************************************)
(* C10 (as stated): a leave event for p arriving at a layer delivers       *)
(* exactly one leave to each live child in hover[p], removes the hover     *)
(* entry of p and leaves the capture table unchanged.                      *)
(***************************************************************************)
C10_Original ==
    [][\A L \in Layers :
          (event'.kind = "leave" /\ LayerHandled(log', L, "leave"))
          => LET p == event'.pointer
             IN  /\ \A c \in Hovered(L, p) :
                       ~dead[c]
                       => Cardinality({i \in SentIdx(log', "leave", L, p) :
                                          log'[i].node = c}) = 1
                 /\ p \notin DOMAIN hovered_children'[L]
                 /\ dragging_children'[L] = dragging_children[L]]_vars

(***************************************************************************)
(* C11: no pointer handler and no keyboard handler of a node is invoked    *)
(* while the node is hidden or dead, whatever the flags were changed to    *)
(* between events; a node destroyed by a handler earlier in the same pass  *)
(* is not invoked later in that pass.                                      *)
(***************************************************************************)
\* Log entries that are a call of a pointer or keyboard handler.
HandlerCalls(lg) ==
    {i \in 1..Len(lg) :
        lg[i].kind \in {"motion", "press", "release", "drag", "leave", "key"}}

C11_NoHandlerWhileHidden ==
    [][\A i \in HandlerCalls(log') :
          /\ ~hidden[log'[i].node]
          /\ ~dead[log'[i].node]
          /\ \A j \in HandlerCalls(log') :
                (event'.kind = "key" /\ j < i /\ log'[j].node = event'.killer)
                => ~dead'[log'[i].node]]_vars

\* B's keyboard handler destroyed A, which is behind it and was offered the
\* event afterwards: A's handler was not invoked, R's and B's were.
C11_Witness ==
    /\ event.kind = "key" /\ event.killer = "B"
    /\ dead["A"] /\ ~dead["B"] /\ ~hidden["A"] /\ scale["A"] = <<1, 1, 1>>
    /\ Len(log) = 3
    /\ log[1].node = Root /\ log[2].node = "B" /\ log[3].kind = "key_result"

(***************************************************************************)
(* C12 (as stated): a node that holds the capture for (p, b) and was       *)
(* hidden while the drag is in progress still receives the drag event of   *)
(* each later motion pass for p and the release event for (p, b), provided *)
(* it is not dead and still in the layer's child list.                     *)
(***************************************************************************)
C12_Original ==
    [][\A L \in Layers, p \in Pointers, b \in Buttons, c \in Nodes :
          ( /\ Captured(L, p, b) = c /\ hidden[c]
            /\ ~dead[c] /\ Contains(children[L], c)
            /\ event'.pointer = p )
          => /\ (event'.kind = "motion" /\ LayerHandled(log', L, "motion"))
                    => Sent(log', "drag", L, c, p, b)
             /\ ( /\ event'.kind = "release" /\ event'.button = b
                  /\ LayerHandled(log', L, "release") )
                    => Sent(log', "release", L, c, p, b)]_vars

(***************************************************************************)
(* C13 (as stated): a node whose scale is zero on at least one axis is     *)
(* excluded from the pass: do_draw performs no transformation operation or *)
(* draw call for it, and it receives no pointer and no keyboard event.     *)
(***************************************************************************)
AllZero(n) == \A i \in 1..3 : scale[n][i] = 0

SomeZero(n) == \E i \in 1..3 : scale[n][i] = 0

\* Log entries that are an operation, a draw call or a handler call for
\* their node.
Effects(lg) ==
    {i \in 1..Len(lg) : lg[i].kind \notin {"call", "return", "raise", "key_result"}}

C13_Original ==
    [][\A i \in Effects(log') : ~SomeZero(log'[i].node)]_vars

(***************************************************************************)
(* C13 (amended): a node is excluded from the pass by its scale only when  *)
(* all three factors are zero.  A node with a zero factor on some axis but *)
(* not all is drawn like any other node, is not hit by a motion or press,  *)
(* and the drag and leave events it receives carry the sentinel point.     *)
(***************************************************************************)
C13_Amended ==
    [][/\ \A i \in Effects(log') :
            /\ ~AllZero(log'[i].node)
            /\ SomeZero(log'[i].node)
                  => /\ log'[i].kind \notin {"motion", "press"}
                     /\ log'[i].kind \in {"drag", "leave"} => log'[i].sentinel
       /\ \A n \in Leaves :
            ( /\ SomeZero(n) /\ ~AllZero(n) /\ ~hidden[n] /\ ~dead[n]
              /\ \E i \in 1..Len(log') :
                    log'[i].kind = "call" /\ log'[i].node = n )
            => \E i \in 1..Len(log') :
                    log'[i].kind = "draw" /\ log'[i].node = n]_vars

\* A, with scale (0, 1, 1), has just been drawn.
C13_Witness ==
    /\ event.kind = "draw" /\ scale["A"] = <<0, 1, 1>>
    /\ \E i \in 1..Len(log) : log[i].kind = "draw" /\ log[i].node = "A"

(***************************************************************************)
(* C14 (as stated): while a layer is hidden (hidden flag, dead or          *)
(* zero-scaled), a keyboard or pointer event entering it is delivered to   *)
(* none of its descendants: no handler is called by a hidden layer.        *)
(***************************************************************************)
C14_Original ==
    [][event'.kind # "draw"
         => \A i \in HandlerCalls(log') :
               log'[i].by \in Layers => ~is_hidden(log'[i].by)]_vars

(***************************************************************************)
(* C15: a keyboard event entering a layer is offered to the layer's own    *)
(* handler first and then to its children in reverse child order (front    *)
(* first), stopping at the first true result, which is the result of the   *)
(* layer's keyboard_event.                                                 *)
(***************************************************************************)
\* The layer's own handler call, and the results its children gave it: a
\* rectangle's handler result, a child layer's keyboard_event result.
Own(lg, L) ==
    {i \in 1..Len(lg) : lg[i].kind = "key" /\ lg[i].node = L}

Offers(lg, L) ==
    {i \in 1..Len(lg) :
        /\ lg[i].by = L
        /\ lg[i].kind = IF lg[i].node \in Layers THEN "key_result" ELSE "key"}

Results(lg, L) ==
    {i \in 1..Len(lg) : lg[i].kind = "key_result" /\ lg[i].node = L}

C15_OwnThenFrontFirst ==
    [][event'.kind = "key"
         => \A L \in Layers : \A j \in Results(log', L) :
              /\ \A o \in Own(log', L) :
                    /\ \A i \in Offers(log', L) : o < i /\ log'[o].ret = None
                    /\ log'[o].ret # None => log'[j].ret = log'[o].ret
              /\ \A i1, i2 \in Offers(log', L) :
                    i1 < i2 => /\ IndexOf(children[L], log'[i1].node)
                                    > IndexOf(children[L], log'[i2].node)
                               /\ log'[i1].ret = None
              /\ \A i \in Offers(log', L) :
                    log'[i].ret # None => log'[j].ret = log'[i].ret
              /\ log'[j].ret # None
                    => \E i \in Own(log', L) \cup Offers(log', L) :
                          log'[i].ret = log'[j].ret
              /\ (log'[j].ret = None /\ event'.killer = None)
                    => /\ ~is_hidden(L) => Own(log', L) # {}
                       /\ \A c \in Leaves :
                             (Contains(children[L], c) /\ ~is_hidden(c))
                             => \E i \in Offers(log', L) : log'[i].node = c]_vars

\* The root's handler and B declined, A took the event, and A's result is
\* the root's.
C15_Witness ==
    /\ event.kind = "key"
    /\ children[Root] = <<"B", "S", "A">>
    /\ \E o, a, r \in 1..Len(log) :
          /\ o < a /\ a < r
          /\ log[o].kind = "key" /\ log[o].node = Root /\ log[o].ret = None
          /\ log[a].kind = "key" /\ log[a].node = "A" /\ log[a].ret = "A"
          /\ log[r].kind = "key_result" /\ log[r].node = Root /\ log[r].ret = "A"
    /\ \A i \in 1..Len(log) : log[i].node # "B"

(***************************************************************************)
(* C16: when a layer dies, every node that was its descendant through the  *)
(* child lists is dead in the same step, without a draw pass; and a dead   *)
(* node never becomes live again.                                          *)
(***************************************************************************)
RECURSIVE Descendants(_, _)
Descendants(ch, n) ==
    IF n \notin Layers THEN {}
    ELSE UNION {{ch[n][i]} \cup Descendants(ch, ch[n][i]) : i \in 1..Len(ch[n])}

C16_DeathReachesDescendants ==
    [][/\ \A n \in Nodes : dead[n] => dead'[n]
       /\ \A L \in Layers :
            (~dead[L] /\ dead'[L])
            => /\ event'.kind # "draw"
               /\ \A d \in Descendants(children, L) : dead'[d]
       /\ \A L \in Layers : \A d \in Descendants(children, L) :
            die(Tree, L).dead[d]]_vars

\* The root died as the first change of the scene, and S, A and B with it.
C16_Witness ==
    /\ changes = MaxChanges - SceneChanges + 1
    /\ event.kind = "change"
    /\ \A n \in Nodes : dead[n]

(***************************************************************************)
(* C17 (as stated): die() leaves the dying node in its parent's child      *)
(* list; only the parent's next draw traversal removes it.  A step that    *)
(* makes an attached node dead keeps it in that parent's list.             *)
(***************************************************************************)
C17_Original ==
    [][\A n \in Nodes :
          (~dead[n] /\ dead'[n] /\ parent[n] # None)
          => Contains(children'[parent[n]], n)]_vars

(***************************************************************************)
(* C18: a layer draws its children in child-list order; an attached child  *)
(* goes last in the list, or first with to_back; and the relative order of *)
(* the other children of any layer is not changed by an attach, a detach   *)
(* or a death.                                                             *)
(***************************************************************************)
\* x comes before y in both lists, or after y in both.
SameOrder(before, after, x, y) ==
    (IndexOf(before, x) < IndexOf(before, y))
        <=> (IndexOf(after, x) < IndexOf(after, y))

OrderKept(before, after, moved) ==
    \A L \in Layers : \A x, y \in Nodes \ {moved} :
        ( /\ Contains(before[L], x) /\ Contains(before[L], y)
          /\ Contains(after[L], x) /\ Contains(after[L], y) )
        => SameOrder(before[L], after[L], x, y)

DrawCalls(lg, L) ==
    {i \in 1..Len(lg) : lg[i].kind = "call" /\ Contains(children[L], lg[i].node)}

C18_ListOrder ==
    [][/\ event'.kind = "draw"
            => \A L \in Layers :
                 /\ \A i1, i2 \in DrawCalls(log', L) :
                       i1 < i2 => IndexOf(children[L], log'[i1].node)
                                    < IndexOf(children[L], log'[i2].node)
                 /\ ( /\ raised' = None
                      /\ \E i \in 1..Len(log') :
                            log'[i].kind = "translate" /\ log'[i].node = L )
                    => \A j \in 1..Len(children[L]) :
                          \E i \in DrawCalls(log', L) :
                              log'[i].node = children[L][j]
       /\ \A n \in Nodes \ {Root} :
            /\ \A np \in Layers \ {n} : \A tb \in BOOLEAN :
                  LET after == reparent(Tree, n, np, tb).children
                  IN  /\ OrderKept(children, after, n)
                      /\ after[np][IF tb THEN 1 ELSE Len(after[np])] = n
                      /\ \A L \in Layers \ {np} : ~Contains(after[L], n)
            /\ OrderKept(children, reparent(Tree, n, None, FALSE).children, n)
            /\ OrderKept(children, die(Tree, n).children, n)]_vars

\* B was attached to the root with to_back and the root then drew B, S, A.
C18_Witness ==
    /\ event.kind = "draw"
    /\ children[Root] = <<"B", "S", "A">>
    /\ \E b, c, a \in 1..Len(log) :
          /\ b < c /\ c < a
          /\ log[b].kind = "call" /\ log[b].node = "B"
          /\ log[c].kind = "call" /\ log[c].node = "S"
          /\ log[a].kind = "call" /\ log[a].node = "A"

(***************************************************************************)
(* C19: when do_draw on a node returns or raises, the transformation's     *)
(* stack depth and current matrix are what they were when it was called;   *)
(* and no transformation operation or draw call is made for a node that is *)
(* hidden or dead, or that lies below such a node.                         *)
(***************************************************************************)
Exits(lg, n) ==
    {i \in 1..Len(lg) : lg[i].kind \in {"return", "raise"} /\ lg[i].node = n}

C19_BalancedDraw ==
    [][event'.kind = "draw"
         => /\ \A c \in 1..Len(log') :
                 log'[c].kind = "call"
                 => /\ Cardinality(Exits(log', log'[c].node)) = 1
                    /\ \A x \in Exits(log', log'[c].node) :
                          /\ c < x
                          /\ log'[x].depth = log'[c].depth
                          /\ log'[x].matrix = log'[c].matrix
            /\ \A i \in Effects(log') :
                 /\ ~is_hidden(log'[i].node)
                 /\ \A L \in Layers :
                       log'[i].node \in Descendants(children, L)
                       => ~is_hidden(L)]_vars

\* B's draw raised below S and the root: each of the three do_draw calls
\* was left by the exception at the depth it was entered.
C19_Witness ==
    /\ event.kind = "draw" /\ raised = "Exception"
    /\ parent["B"] = "S" /\ parent["S"] = Root
    /\ \E b, c \in 1..Len(log) :
          /\ log[b].kind = "raise" /\ log[b].node = "B" /\ log[b].depth = 2
          /\ log[c].kind = "raise" /\ log[c].node = "S" /\ log[c].depth = 1
    /\ log[Len(log)].kind = "raise" /\ log[Len(log)].node = Root
    /\ log[Len(log)].depth = 0

(***************************************************************************)
(* C20 (as stated): for MatrixTransformation and PointTransformation,      *)
(* push(); S; pop() restores exactly the state held at the push, for any   *)
(* S whose own pushes and pops are balanced; and a `with t.state` block    *)
(* does the same, also when S raises.  Every step that leaves a context    *)
(* (pop(), the end of a block, an exception leaving a block) restores the  *)
(* value and the stack the context was entered with.                       *)
(***************************************************************************)
\* The context left by a step from x to y (by pop(), the end of a block or
\* an exception leaving a block), or 0 if none is left.
Left(x, y) ==
    IF y.last \in {"pop", "exit", "unwind"} /\ Len(y.ctx) < Len(x.ctx)
    THEN Len(y.ctx) + 1 ELSE 0

Restored(x, y) ==
    /\ y.value = x.ctx[Left(x, y)].value
    /\ y.stack = x.ctx[Left(x, y)].stack

C20_Original ==
    [][Left(tf, tf') # 0 => Restored(tf, tf')]_vars

(***************************************************************************)
(* C20 (amended): push(); S; pop() restores exactly the state held at the  *)
(* push for any balanced S, and a `with t.state` block does the same when  *)
(* S completes, and when S raises provided that every bare push() S made   *)
(* before raising had been popped: the stack is as deep as it was right    *)
(* after the block's own push.                                             *)
(***************************************************************************)
C20_Amended ==
    [][( /\ Left(tf, tf') # 0
         /\ tf.raising # None
               => Len(tf.stack) = Len(tf.ctx[Left(tf, tf')].stack) + 1 )
          => Restored(tf, tf')]_vars

\* An exception raised after the matrix was assigned has just left a
\* `with t.state` block that was entered inside a bare push, after an
\* operation: the matrix is the one the block was entered with.
C20_Witness ==
    /\ tf.cls = "Matrix" /\ tf.last = "unwind" /\ tf.raising = "AssertionError"
    /\ Len(tf.ctx) = 1 /\ tf.ctx[1].kind = "push"
    /\ tf.stack = <<identity>>
    /\ tf.value # identity

(***************************************************************************)
(* C21: after any sequence of translate, scale (non-zero factors), rotate  *)
(* and premultiply (invertible affine matrix) operations from a fresh or   *)
(* reset state, the point of a PointTransformation built from p equals     *)
(* transform_point(p) of the MatrixTransformation given the same           *)
(* operations; with no operation applied it is p.                          *)
(***************************************************************************)
C21_PointTracksMatrix ==
    /\ pair.regular
          => /\ Matrix_transform_point(pair.matrix, pair.p).err = None
             /\ Matrix_transform_point(pair.matrix, pair.p).value = pair.point
    /\ pair.matrix = identity /\ pair.regular => pair.point = pair.p

\* A translation followed by a quarter turn has moved p = (1, 0, 0) off
\* itself, and the matrix holds both.
C21_Witness ==
    /\ pair.regular /\ pair.p = <<1, 0, 0>>
    /\ pair.point # pair.p
    /\ pair.matrix[2] # 0 /\ pair.matrix[13] # 0

(***************************************************************************)
(* C22: MatrixTransformation.premultiply(values) sets the matrix to the    *)
(* row-major 4x4 product values x current, so that operation A followed by *)
(* operation B gives B x A; translate(5, 6, 7) followed by rotate(90)      *)
(* about z differs from rotate(90) followed by translate(5, 6, 7); and two *)
(* translations add up.                                                    *)
(***************************************************************************)
\* Element (r, c) of a row-major 4x4 matrix, rows and columns from 0.
Elem(m, r, c) == m[4 * r + c + 1]

RECURSIVE RowByColumn(_, _, _, _, _)
RowByColumn(a, b, r, c, k) ==
    IF k < 0 THEN 0
    ELSE Elem(a, r, k) * Elem(b, k, c) + RowByColumn(a, b, r, c, k - 1)

MatMul(a, b) ==
    [i \in 1..16 |-> RowByColumn(a, b, (i - 1) \div 4, (i - 1) % 4, 3)]

Translation(v) ==
    <<1, 0, 0, 0,  0, 1, 0, 0,  0, 0, 1, 0,  v[1], v[2], v[3], 1>>

QuarterTurn == <<0, 1, 0, 0,  0 - 1, 0, 0, 0,  0, 0, 1, 0,  0, 0, 0, 1>>

C22_ProductOnLeft ==
    LET t == AsMatrix(pair)
        tr(x) == T_translate(x, <<5, 6, 7>>)
        ro(x) == T_rotate(x, 90)
    IN  /\ \A v \in PairPremultipliers \cup {BadColumn} :
              Matrix_premultiply(t, v).t.value = MatMul(v, t.value)
        /\ \A a, b \in PairPremultipliers :
              Matrix_premultiply(Matrix_premultiply(t, a).t, b).t.value
                 = MatMul(MatMul(b, a), t.value)
        /\ ro(tr(t).t).t.value = MatMul(MatMul(QuarterTurn, Translation(<<5, 6, 7>>)), t.value)
        /\ tr(ro(t).t).t.value = MatMul(MatMul(Translation(<<5, 6, 7>>), QuarterTurn), t.value)
        /\ Det3(t.value) # 0 => ro(tr(t).t).t.value # tr(ro(t).t).t.value
        /\ \A a, b \in Translations :
              T_translate(T_translate(t, a).t, b).t.value
                 = T_translate(t, <<a[1] + b[1], a[2] + b[2], a[3] + b[3]>>).t.value

\* translate(1, 0, 0) and then rotate(90) were applied to the identity: the
\* matrix is turn x translation, which is not translation x turn.
C22_Witness ==
    /\ pair.matrix = MatMul(QuarterTurn, Translation(<<1, 0, 0>>))
    /\ pair.matrix # MatMul(Translation(<<1, 0, 0>>), QuarterTurn)

(***************************************************************************)
(* C23: for every invertible affine matrix M accumulated from the          *)
(* operations, MatrixTransformation.inverse returns N with                 *)
(* N x M = M x N = identity; inverting N gives M back; and a point mapped  *)
(* by M and then by N is the original point.                               *)
(***************************************************************************)
\* The row vector (p, 1) times the matrix m.
MapPoint(p, m) ==
    << p[1] * m[1] + p[2] * m[5] + p[3] * m[9] + m[13],
       p[1] * m[2] + p[2] * m[6] + p[3] * m[10] + m[14],
       p[1] * m[3] + p[2] * m[7] + p[3] * m[11] + m[15] >>

C23_InverseIsInverse ==
    LET M == pair.matrix
        N == Matrix_inverse(M)
    IN  /\ Det3(M) \in {0 - 1, 0, 1}
        /\ Det3(M) # 0
             => /\ N.err = None
                /\ MatMul(N.value, M) = identity
                /\ MatMul(M, N.value) = identity
                /\ Matrix_inverse(N.value).err = None
                /\ Matrix_inverse(N.value).value = M
                /\ \A p \in PairPoints :
                      /\ MapPoint(MapPoint(p, M), N.value) = p
                      /\ Matrix_transform_point(N.value, p).value = MapPoint(p, M)
                      /\ Matrix_transform_point(
                            M, Matrix_transform_point(N.value, p).value).value = p

\* An invertible matrix with a turn and a translation, different from its
\* inverse.
C23_Witness ==
    /\ Det3(pair.matrix) # 0
    /\ pair.matrix[2] # 0 /\ pair.matrix[13] # 0
    /\ Matrix_inverse(pair.matrix).value # pair.matrix

(***************************************************************************)
(* C24: after a scale with a factor of exactly 0 on some axis, no mapped   *)
(* point is returned: PointTransformation.scale raises at the call and     *)
(* leaves the point as it was, and MatrixTransformation.inverse and        *)
(* transform_point raise ValueError, also after further operations.        *)
(***************************************************************************)
ZeroScalings == {v \in PairScalings : \E i \in 1..3 : v[i] = 0}

C24_ZeroScaleRaises ==
    [][/\ (pair'.last[1] = "scale" /\ pair'.last[2] \in ZeroScalings)
            => /\ pair'.perr = "ZeroDivisionError"
               /\ pair'.point = pair.point
               /\ Matrix_inverse(pair'.matrix).err = "ValueError"
               /\ \A p \in PairPoints :
                     Matrix_transform_point(pair'.matrix, p).err = "ValueError"
       /\ \A v \in ZeroScalings :
            T_scale(AsPoint(pair), v).err = "ZeroDivisionError"
       /\ \A t \in {T_scale(AsMatrix(pair), v).t : v \in ZeroScalings} :
            /\ Matrix_inverse(t.value).err = "ValueError"
            /\ \A u \in {T_translate(t, w).t : w \in Translations} :
                 \A r \in {T_rotate(u, angle).t.value : angle \in PairAngles} :
                    Matrix_inverse(r).err = "ValueError"]_vars

\* A turned and moved pair was scaled by (0, 1, 1): the point
\* transformation raised and the matrix has no inverse.
C24_Witness ==
    /\ pair.last = <<"scale", <<0, 1, 1>>>>
    /\ pair.perr = "ZeroDivisionError"
    /\ pair.point # pair.p
    /\ Matrix_inverse(pair.matrix).err = "ValueError"

(***************************************************************************)
(* C25 (as stated): in every state reachable by reset, push, pop,          *)
(* translate, rotate, scale and premultiply, the matrix of a               *)
(* MatrixTransformation has last column (0, 0, 0, 1): the assertions of    *)
(* premultiply never fail and no non-affine matrix is ever stored.         *)
(***************************************************************************)
Affine(m) == m[4] = 0 /\ m[8] = 0 /\ m[12] = 0 /\ m[16] = 1

C25_Original ==
    tf.cls = "Matrix"
       => /\ Affine(tf.value)
          /\ \A i \in 1..Len(tf.stack) : Affine(tf.stack[i])
          /\ tf.raising # "AssertionError"

(***************************************************************************)
(* C26: Rectangle.hit_test(x, y, z) of a rectangle of size (W, H) is true  *)
(* exactly when 0 <= x < W and 0 <= y < H, whatever z is (left and bottom  *)
(* edges inside, right and top edges outside), and the base hit_test is    *)
(* true at every point; a motion or press reaches a rectangle only at a    *)
(* point inside these bounds.                                              *)
(***************************************************************************)
HitPoints ==
    {<<x, y, z>> : x \in -1..MaxCoord, y \in -1..MaxCoord, z \in -1..1}

Inside(n, pt) ==
    /\ 0 <= pt[1] /\ pt[1] < size(n)[1]
    /\ 0 <= pt[2] /\ pt[2] < size(n)[2]

C26_HalfOpenBounds ==
    /\ \A n \in Leaves, pt \in HitPoints : hit_test(n, pt) <=> Inside(n, pt)
    /\ \A L \in Layers, pt \in HitPoints : hit_test(L, pt)
    /\ event.kind \in {"motion", "press"}
       => \A L \in Layers, c \in Leaves :
            c \in SentNodes(log, event.kind, L, event.pointer)
            => Inside(c, translate(LayerPoint(L, event.point), position(c)))

\* A motion on the right edge of A (x = W): A, in the scene and unscaled, is
\* not hit, and B, whose left edge is one unit before, is.
C26_Witness ==
    /\ event.kind = "motion" /\ event.point = <<size("A")[1], 0, 0>>
    /\ Contains(children[Root], "A") /\ ~is_hidden("A")
    /\ scale["A"] = <<1, 1, 1>>
    /\ SentNodes(log, "motion", Root, "main") = {"B"}

(***************************************************************************)
(* C27: a constructor call whose keyword arguments include one or more     *)
(* names that are not animated properties of the class raises one          *)
(* TypeError that lists every such name, once each, whatever the number    *)
(* and the order of the arguments; with none, it raises nothing.           *)
(***************************************************************************)
Unrecognised(kwargs) ==
    {kwargs[i] : i \in {j \in 1..Len(kwargs) : ~is_animated(kwargs[j])}}

C27_EveryUnknownNamed ==
    made.node # None
    => IF Unrecognised(made.kwargs) = {}
       THEN made.err = None /\ made.node \in made.built
       ELSE /\ made.err = "TypeError"
            /\ {made.unknown[i] : i \in 1..Len(made.unknown)}
                   = Unrecognised(made.kwargs)
            /\ Len(made.unknown) = Cardinality(Unrecognised(made.kwargs))
            /\ made.node \notin made.built

\* Two unknown names with a recognised one between them: both are listed.
C27_Witness ==
    /\ made.kwargs = <<"colour", "scale", "hidden">>
    /\ made.err = "TypeError"
    /\ made.unknown = <<"colour", "hidden">>
    /\ made.assigned = <<"scale">>

(***************************************************************************)
(* C28: a layer handling a press offers it to its hit (and not hidden)     *)
(* children front first; the first child whose handler returns a true      *)
(* value becomes capture[p][b], the layer returns that value and no child  *)
(* behind receives the press; when no hit child claims, every hit child    *)
(* has received the press, the layer's capture is unchanged and the layer  *)
(* returns None.                                                           *)
(***************************************************************************)
PressDue(L, pt) ==
    {c \in Nodes : Contains(children[L], c) /\ Under(L, c, pt) /\ ~is_hidden(c)}

\* What the press handler of layer L returned in the pass.
PressResult(lg, L) ==
    lg[CHOOSE k \in 1..Len(lg) : lg[k].node = L /\ lg[k].kind = "press"].ret

PressClaims(lg, L, p) == {i \in SentIdx(lg, "press", L, p) : lg[i].ret # None}

C28_PressFrontFirst ==
    [][\A L \in Layers :
          (event'.kind = "press" /\ LayerHandled(log', L, "press"))
          => LET p == event'.pointer
                 b == event'.button
                 idx == SentIdx(log', "press", L, p)
             IN  /\ \A i, j \in idx :
                        i < j => Behind(L, log'[j].node, log'[i].node)
                 /\ \A i \in PressClaims(log', L, p) :
                        /\ \A j \in idx : j <= i
                        /\ b \in DOMAIN Get(dragging_children'[L], p, EmptyDict)
                        /\ dragging_children'[L][p][b] = log'[i].node
                        /\ PressResult(log', L) = log'[i].ret
                        /\ SentNodes(log', "press", L, p)
                              = {c \in PressDue(L, event'.point) :
                                    ~Behind(L, c, log'[i].node)}
                 /\ PressClaims(log', L, p) = {}
                    => /\ dragging_children'[L] = dragging_children[L]
                       /\ PressResult(log', L) = None
                       /\ SentNodes(log', "press", L, p)
                             = PressDue(L, event'.point)]_vars

\* B, in front, received the press and did not claim it; A, behind, claimed
\* it and is the capture.
C28_Witness ==
    \E b \in Buttons :
        /\ event.kind = "press" /\ event.button = b
        /\ Behind(Root, "A", "B")
        /\ \E i, j \in SentIdx(log, "press", Root, "main") :
              /\ i < j
              /\ log[i].node = "B" /\ log[i].ret = None
              /\ log[j].node = "A" /\ log[j].ret # None
        /\ Captured(Root, "main", b) = "A"

(***************************************************************************)
(* C29 (as stated): no pointer handler of a layer (motion, press, release, *)
(* leave) ends with an error because a child has a zero scale factor: the  *)
(* event is processed to the end, the child gets no motion or press, and   *)
(* a leave it is owed carries the sentinel point.                          *)
(***************************************************************************)
C29_Original ==
    (event.kind \in {"motion", "press", "release", "leave"} /\ ~SomeZero(Root))
    => /\ raised = None
       /\ \A i \in 1..Len(log) :
             SomeZero(log[i].node)
             => /\ log[i].kind \notin {"motion", "press"}
                /\ log[i].kind = "leave" => log[i].sentinel

(***************************************************************************)
(* C30 (as stated): a DecorationLayer child never responds to hit tests: a *)
(* motion or press over it is processed by the containing layer without    *)
(* error, reaches neither the DecorationLayer nor a node below it, puts it *)
(* in no capture, and is still offered to the siblings behind it.          *)
(***************************************************************************)
RECURSIVE UnderDecoration(_)
UnderDecoration(n) ==
    /\ n # None
    /\ n \in decorations \/ UnderDecoration(parent[n])

\* Sibling c of a DecorationLayer in layer L is on the point, not hidden,
\* and no child in front of it returned a true value for the event.
StillDue(L, c) ==
    /\ Contains(children[L], c) /\ c \notin decorations
    /\ Under(L, c, event.point) /\ ~is_hidden(c)
    /\ \A i \in SentIdx(log, event.kind, L, event.pointer) :
          log[i].ret # None => ~Behind(L, c, log[i].node)

C30_Original ==
    (event.kind \in {"motion", "press"} /\ ~SomeZero(Root) /\ ~is_hidden(Root))
    => /\ raised = None
       /\ \A i \in 1..Len(log) : ~UnderDecoration(log[i].node)
       /\ \A L \in Layers, p \in Pointers, b \in Buttons :
             Captured(L, p, b) \notin decorations
       /\ \A c \in Nodes :
             StillDue(Root, c)
             => c \in SentNodes(log, event.kind, Root, event.pointer)

(***************************************************************************)
(* C31: starting at [] and applying next_position again and again visits   *)
(* every node of the tree once, in pre-order, and ends at last_position(); *)
(* prev_position undoes next_position and next_position undoes             *)
(* prev_position; prev_position([]) is None and                            *)
(* next_position(last_position()) is None, for the empty tree too.         *)
(***************************************************************************)
RECURSIVE PreOrder(_)
RECURSIVE PreOrderFrom(_, _)
PreOrderFrom(l, i) ==
    IF i > Len(l) THEN <<>>
    ELSE LET sub == PreOrder(l[i])
         IN  [k \in 1..Len(sub) |-> <<i - 1>> \o sub[k]] \o PreOrderFrom(l, i + 1)

PreOrder(l) == <<(<<>>)>> \o PreOrderFrom(l, 1)

C31_PreOrderWalk ==
    walker.steps >= 0
    => \E order \in {PreOrder(walker.list)} :
        \E nxt \in {next_position(walker.list, walker.position)} :
        \E prv \in {prev_position(walker.list, walker.position)} :
          /\ walker.steps + 1 \in 1..Len(order)
          /\ walker.position = order[walker.steps + 1]
          /\ nxt.none <=> walker.steps + 1 = Len(order)
          /\ nxt.none <=> walker.position = last_position(walker.list)
          /\ prv.none <=> walker.position = <<>>
          /\ ~nxt.none => /\ nxt.pos = order[walker.steps + 2]
                          /\ prev_position(walker.list, nxt.pos)
                                = Pos(walker.position)
          /\ ~prv.none => /\ prv.pos = order[walker.steps]
                          /\ next_position(walker.list, prv.pos)
                                = Pos(walker.position)

\* The walk over [0, [1, 2, 3], 4] has reached its end, [2], in six steps.
C31_Witness ==
    /\ walker.list = << <<>>, << <<>>, <<>>, <<>> >>, <<>> >>
    /\ walker.position = <<2>>
    /\ walker.steps = 6

(***************************************************************************)
(* C32 (as stated): a layer delivers a leave event for pointer p to a node *)
(* only if it delivered a motion event for p to that node earlier and no   *)
(* leave event for p since, over any sequence of motion and leave events   *)
(* and changes of hidden flags.                                            *)
(***************************************************************************)
C32_Original ==
    [][\A i \in 1..Len(log') :
          (log'[i].kind = "leave" /\ log'[i].by \in Layers)
          => <<log'[i].by, log'[i].pointer, log'[i].node>> \in motioned]_vars

(***************************************************************************)
(* C33 (as stated): every leave event a layer sends during its motion pass *)
(* carries the pointer position of the layer's frame mapped through the    *)
(* transform of the leaving child only, also when the hit-test loop        *)
(* stopped early at a child that claimed the motion.                       *)
(***************************************************************************)
C33_Original ==
    event.kind = "motion"
    => \A i \in 1..Len(log) :
          ( /\ log[i].kind = "leave" /\ log[i].by \in Layers
            /\ ~log[i].sentinel /\ ~SomeZero(log[i].node) )
          => log[i].point = translate(LayerPoint(log[i].by, event.point),
                                      position(log[i].node))

(***************************************************************************)
(* C34 (as stated): for a layer with any anchor, a child is hit-tested     *)
(* through the same transformation it is drawn through: a motion or press  *)
(* is delivered to a rectangle (no child in front having claimed it)       *)
(* exactly when its point lies where the rectangle is drawn.               *)
(***************************************************************************)
RECURSIVE Offset(_, _)
Offset(ops, k) ==
    IF k > Len(ops) THEN <<0, 0, 0>>
    ELSE LET rest == Offset(ops, k + 1)
         IN  IF ops[k][1] = "translate"
             THEN <<ops[k][2][1] + rest[1], ops[k][2][2] + rest[2],
                    ops[k][2][3] + rest[3]>>
             ELSE rest

\* The point lies on rectangle c as the draw pass of the scene places it
\* (all scale factors of the scene are 1).
DrawnOver(c, pt) ==
    \E lg \in {Window_on_draw([thrower |-> None]).log} :
        \E i \in 1..Len(lg) :
            /\ lg[i].kind = "draw" /\ lg[i].node = c
            /\ Inside(c, translate(pt, Offset(lg[i].matrix, 1)))

C34_Original ==
    (event.kind \in {"motion", "press"} /\ raised = None)
    => \A c \in Leaves :
          ( /\ Contains(children[Root], c)
            /\ \A n \in Nodes : scale[n] = <<1, 1, 1>> /\ ~is_hidden(n)
            /\ \A i \in SentIdx(log, event.kind, Root, event.pointer) :
                  log[i].ret # None => ~Behind(Root, c, log[i].node) )
          => ( c \in SentNodes(log, event.kind, Root, event.pointer)
               <=> DrawnOver(c, event.point) )

(***************************************************************************)
(* C35: after any sequence of constructions, reparent and die calls, a     *)
(* node is in the child list of layer L if and only if its parent is L,    *)
(* and it occurs there once; so it is in the list of no other layer.       *)
(***************************************************************************)
Occurrences(seq, x) == Cardinality({i \in 1..Len(seq) : seq[i] = x})

C35_ParentsAndListsAgree ==
    \A L \in Layers, n \in Nodes :
        /\ Contains(children[L], n) <=> parent[n] = L
        /\ Occurrences(children[L], n) <= 1

\* A was constructed before layer S, so it was moved into S by reparent; B
\* has been constructed and destroyed.
C35_Witness ==
    /\ made.node = "S" /\ parent["S"] = Root
    /\ parent["A"] = "S" /\ children["S"] = <<"A">>
    /\ "B" \in made.called /\ dead["B"] /\ parent["B"] = None

(***************************************************************************)
(* C36 (as stated): after any sequence of reparent calls no node is its    *)
(* own ancestor: a reparent that would put a node under itself or under    *)
(* one of its descendants is rejected.                                     *)
(***************************************************************************)
RECURSIVE Ancestors(_, _)
Ancestors(n, k) ==
    IF k = 0 \/ n = None THEN {}
    ELSE {parent[n]} \cup Ancestors(parent[n], k - 1)

\* C36 (as stated): no node is its own ancestor in any reachable scene.
C36_Original == \A n \in Nodes : n \notin Ancestors(n, Cardinality(Nodes))

(***************************************************************************)
(* Two pointers on the flat scene.  The handlers key hovered_children and  *)
(* dragging_children by the pointer argument they are called with          *)
(* (multi-touch): events of the two pointers interleave freely,   *)
(* each with its first button.                                             *)
(***************************************************************************)
Touches == {"main", "second"}

TouchButtons == {1}

NextTouch ==
    \/ \E p \in Touches, pt \in EventPoints :
            \E cl \in SUBSET LeavesAt(pt) : Motion(p, pt, cl)
    \/ \E p \in Touches, b \in TouchButtons, pt \in EventPoints :
            \E cl \in SUBSET LeavesAt(pt) : Press(p, b, pt, cl)
    \/ \E p \in Touches, b \in TouchButtons, pt \in EventPoints : Release(p, b, pt)
    \/ \E p \in Touches, pt \in EventPoints : Leave(p, pt)

SpecTouch == Init /\ [][NextTouch]_vars

SameEntry(d1, d2, q) ==
    /\ (q \in DOMAIN d1) = (q \in DOMAIN d2)
    /\ q \in DOMAIN d1 => d1[q] = d2[q]

\* C37: handling a motion, press, release or leave event of pointer p leaves
\* every layer's hover entry and capture entry of each other pointer q as
\* they were, and every drag, release and leave event delivered in the pass
\* carries pointer p, never q.
C37_OtherPointersUntouched ==
    [][\A p \in Touches, q \in Touches :
          (p # q /\ event'.pointer = p
           /\ event'.kind \in {"motion", "press", "release", "leave"})
          => /\ \A L \in Layers :
                  /\ SameEntry(hovered_children[L], hovered_children'[L], q)
                  /\ SameEntry(dragging_children[L], dragging_children'[L], q)
             /\ \A i \in 1..Len(log') : log'[i].pointer # q]_vars

C37_Witness ==
    /\ event.kind = "release" /\ event.pointer = "main"
    /\ \E i \in 1..Len(log) : log[i].kind = "release" /\ log[i].node \in Leaves
    /\ "main" \notin DOMAIN dragging_children[Root]
    /\ "second" \in DOMAIN dragging_children[Root]
    /\ "second" \in DOMAIN hovered_children[Root]
    /\ hovered_children[Root]["second"] # {}

(***************************************************************************)
(* C38 (as stated): in every reachable state each pointer present in a     *)
(* layer's capture table has at least one captured button.                 *)
(***************************************************************************)
C38_Original ==
    \A L \in Layers : \A p \in DOMAIN dragging_children[L] :
        DOMAIN dragging_children[L][p] # {}

(***************************************************************************)
(* C39 (as stated): a construction rejected for unknown keyword arguments  *)
(* leaves every child list as it was before the attempt, without the node  *)
(* whose construction failed.                                              *)
(***************************************************************************)
C39_Original ==
    [][(made'.called # made.called /\ made'.err # None)
       => /\ children' = children
          /\ \A L \in Layers : ~Contains(children'[L], made'.node)]_vars

(***************************************************************************)
(* Pointer events on the nested scene: R holds layer S (behind) and        *)
(* rectangle A (in front), S holds rectangle B.                            *)
(***************************************************************************)
NextNested ==
    \/ \E p \in Pointers, pt \in EventPoints :
            \E cl \in SUBSET LeavesAt(pt) : Motion(p, pt, cl)
    \/ \E p \in Pointers, b \in Buttons, pt \in EventPoints :
            \E cl \in SUBSET LeavesAt(pt) : Press(p, b, pt, cl)
    \/ \E p \in Pointers, b \in Buttons, pt \in EventPoints : Release(p, b, pt)

SpecNested == InitScene /\ [][NextNested]_vars

(***************************************************************************)
(* C40 (as stated): while a press that entered at the root is held by a    *)
(* node below a nested layer (the root captured the layer, the layer       *)
(* captured the node, no release yet), every motion of that pointer        *)
(* delivers a drag event for that button to the node.                      *)
(***************************************************************************)
C40_Original ==
    [][\A t \in claimed :
          (/\ t[1] # Root
           /\ <<Root, t[2], t[3], t[1]>> \in claimed
           /\ event'.kind = "motion" /\ event'.pointer = t[2])
          => \E i \in 1..Len(log') :
                /\ log'[i].kind = "drag" /\ log'[i].node = t[4]
                /\ log'[i].pointer = t[2] /\ log'[i].button = t[3]]_vars

====
